---- MODULE Spec2Model ----
(***************************************************************************)
(* NodeImage -> WebDAV synchronisation: the run coordinator of main.go     *)
(* (runSync, syncHandler, the timer goroutine), the engine of              *)
(* internal/sync/sync.go (RunSync, diffFiles, the WebDAV list cache) and   *)
(* the two remote sides as the engine observes them.                       *)
(*                                                                         *)
(* A path is written as the sequence of its segments ("/images/a.jpg" is   *)
(* <<"images", "a.jpg">>); an empty credential is the empty string.        *)
(***************************************************************************)
EXTENDS Integers, Sequences, FiniteSets, TLC

\* ------------------------------------------------------------------ bounds

\* Goroutines that can execute runSync at the same time.
MaxProcs == 2
\* Triggers that get the Run Lock over one behaviour.
MaxRuns == 2
\* Longest source listing the image host returns.
MaxSrcLen == 1
\* Longest list handed to diffFiles when it is checked on its own.
MaxDiffLen == 2
\* Largest plan handed to the goroutines when the execute phase is checked
\* on its own: one more than the admission gate holds.
MaxPlan == 6
\* Websocket clients that connect over one behaviour of the hub.
MaxClients == 2
\* Messages a client's send channel buffers (256 in ServeWs).
SendCap == 1
\* Broadcast calls over one behaviour of the hub.
MaxBroadcasts == 2
\* Pages the WebDAV server serves a directory in, and entries of a page.
MaxPages == 2
MaxEntries == 2

\* ------------------------------------------------------------ value domains

Procs == 1..MaxProcs

\* File names on either side.
Names == {"a.jpg", "b.jpg"}

\* WEBDAV_FOLDER of a complete configuration.
BasePath == <<"images">>

\* A Go slice: nil, or its elements.
NilSlice == [isNil |-> TRUE, elems |-> <<>>]
Slice(s) == [isNil |-> FALSE, elems |-> s]

\* The names of a large folder, for the execute phase on its own.
PlanNames == <<"a.jpg", "b.jpg", "c.jpg", "d.jpg", "e.jpg", "f.jpg", "g.jpg",
               "h.jpg">>

\* The listed size of a file, as both sides report it.
SizeOf(name) == CHOOSE i \in DOMAIN PlanNames : PlanNames[i] = name

ImageInfo(name) == [Filename |-> name, Size |-> SizeOf(name)]

\* ------------------------------------------------------------ path helpers

\* filepath.Base: the last segment; "." for the empty path.
Base(p) == IF Len(p) = 0 THEN "." ELSE p[Len(p)]

\* filepath.Join / path.Join of a directory and one segment.
PathJoin(dir, name) == Append(dir, name)

FileInfo(dir, name) == [Path |-> PathJoin(dir, name), Size |-> SizeOf(name)]

\* ------------------------------------------------------------ seq helpers

Range(s) == {s[i] : i \in DOMAIN s}

RECURSIVE SumSizes(_)
SumSizes(s) == IF Len(s) = 0 THEN 0 ELSE s[1].Size + SumSizes(Tail(s))

SeqsUpTo(S, n) == UNION {[1..k -> S] : k \in 0..n}

\* A set as the sequence a server lists it in (one fixed order).
RECURSIVE SetToSeq(_)
SetToSeq(S) ==
    IF S = {} THEN <<>>
    ELSE LET x == CHOOSE y \in S : TRUE IN <<x>> \o SetToSeq(S \ {x})

\* --------------------------------------------------------------- diffFiles

\* (variant) a map that keeps the first path listed under a base name
WebdavFileMapFirst(webdavFiles) ==
    [n \in {Base(f) : f \in Range(webdavFiles)} |->
        LET first == CHOOSE i \in DOMAIN webdavFiles :
                         /\ Base(webdavFiles[i]) = n
                         /\ \A j \in DOMAIN webdavFiles :
                                Base(webdavFiles[j]) = n => j >= i
        IN webdavFiles[first]]

\* webdavFileMap after the first loop: base name -> the last path listed
\* under that base name.
WebdavFileMap(webdavFiles) ==
    [n \in {Base(f) : f \in Range(webdavFiles)} |->
        LET last == CHOOSE i \in DOMAIN webdavFiles :
                        /\ Base(webdavFiles[i]) = n
                        /\ \A j \in DOMAIN webdavFiles :
                               Base(webdavFiles[j]) = n => j <= i
        IN webdavFiles[last]]

\* (variant) a source name is not removed from the map
MapDeleteNothing(m, k) == m

\* delete(webdavFileMap, targetFilename)
MapDelete(m, k) == [n \in DOMAIN m \ {k} |-> m[n]]

\* The second loop: a source file whose name is not (or no longer) a key of
\* the map is appended to toUpload; its name is removed from the map.
RECURSIVE DiffLoop(_, _, _)
DiffLoop(files, map, toUpload) ==
    IF Len(files) = 0 THEN [toUpload |-> toUpload, map |-> map]
    ELSE LET niFile == Head(files)
             exists == niFile.Filename \in DOMAIN map
         IN DiffLoop(Tail(files), MapDelete(map, niFile.Filename),
                     IF exists THEN toUpload ELSE Append(toUpload, niFile))

\* toDelete is read off a Go map, whose iteration order is unspecified: it
\* is kept as the set of its paths.
diffFiles(nodeImageFiles, webdavFiles) ==
    LET r == DiffLoop(nodeImageFiles, WebdavFileMap(webdavFiles), <<>>)
    IN [toUpload |-> r.toUpload, toDelete |-> {r.map[n] : n \in DOMAIN r.map}]

\* ----------------------------------------------------------- configuration

\* getEnvAsInt("SYNC_CONCURRENCY", 5)
DefaultSyncConcurrency == 5

\* Values SYNC_CONCURRENCY is set to: below the default, and the default.
SyncConcurrencies == {3, DefaultSyncConcurrency}

FullConfig ==
    [NodeImageCookie |-> "c1", NodeImageAPIKey |-> "k1",
     WebdavUsername |-> "u", WebdavPassword |-> "p",
     WebdavBasePath |-> BasePath,
     SyncConcurrency |-> DefaultSyncConcurrency]

\* The configurations LoadConfig can produce here: complete, or with one
\* required variable unset.
InitConfigs ==
    {FullConfig,
     [FullConfig EXCEPT !.NodeImageCookie = ""],
     [FullConfig EXCEPT !.NodeImageAPIKey = ""],
     [FullConfig EXCEPT !.WebdavUsername = ""],
     [FullConfig EXCEPT !.WebdavPassword = ""],
     [FullConfig EXCEPT !.WebdavBasePath = <<>>]}

NoConfig ==
    [NodeImageCookie |-> "", NodeImageAPIKey |-> "",
     WebdavUsername |-> "", WebdavPassword |-> "", WebdavBasePath |-> <<>>,
     SyncConcurrency |-> 0]

\* (variant) a check that is content with the credential of either mode
ConfigMissingBothCredentials(config, isFull) ==
    \/ config.NodeImageCookie = "" /\ config.NodeImageAPIKey = ""
    \/ config.WebdavUsername = ""
    \/ config.WebdavPassword = ""
    \/ config.WebdavBasePath = <<>>

\* The condition of RunSync's configuration check.
ConfigMissing(config, isFull) ==
    \/ isFull /\ config.NodeImageCookie = ""
    \/ ~isFull /\ config.NodeImageAPIKey = ""
    \/ config.WebdavUsername = ""
    \/ config.WebdavPassword = ""
    \/ config.WebdavBasePath = <<>>

\* ----------------------------------------------------------------- results

FailResult(msg) ==
    [Success |-> FALSE, Message |-> msg, Uploaded |-> 0, Deleted |-> 0,
     UploadSize |-> 0, Error |-> TRUE,
     TotalNodeImageFiles |-> 0, TotalNodeImageSize |-> 0,
     TotalWebDAVFiles |-> 0, TotalWebDAVSize |-> 0]

NoResult == [FailResult("none") EXCEPT !.Error = FALSE]

NoCounts ==
    [uploadCount |-> 0, deleteCount |-> 0,
     uploadErrCount |-> 0, deleteErrCount |-> 0]

\* Size of the admission gate: guard := make(chan struct{}, 5).
GuardSize == 5

\* ------------------------------------------------------------------- state

VARIABLES
    \* main.go
    syncMutex,        \* the Run Lock: TRUE while held
    appConfig,        \* the process configuration
    pc,               \* per goroutine: where it is in runSync / RunSync
    isFullSync,       \* per goroutine: the mode it was started with
    mode,             \* per goroutine: the "mode" query parameter of the
                      \* trigger ("timer" for the timer's) until runSync
                      \* starts; the goroutine is handed isFullSync alone
    activeConfig,     \* per goroutine: runSync's copy of appConfig
    response,         \* per goroutine: what syncHandler answered its caller
    outcome,          \* per goroutine: what runSync did with the trigger
    \* internal/sync/sync.go
    webdavCache,      \* the cached WebDAV listing, a slice
    nodeImageFiles,   \* per run: the source listing
    webdavFileInfos,  \* per run: the destination listing in use
    listed,           \* per run: "no", "cache" or "fresh" (where it came from)
    filesToUpload,    \* per run: the upload plan
    filesToDelete,    \* per run: the delete plan acted on
    upWk,             \* per run: state of each upload goroutine
    delWk,            \* per run: state of each delete goroutine
    counts,           \* per run: uploadCount, deleteCount and the error counts
    result,           \* per run: the Result RunSync returns
    \* the two remote sides
    niImages,         \* the images the host lists
    davFiles,         \* names of the files in the WebDAV folder
    rootExists,       \* TRUE while the WebDAV base collection exists
    \* bookkeeping of the runs
    runs,             \* runs accepted so far
    adapterCalls,     \* per goroutine: adapter calls RunSync itself has made
                      \* (those of its goroutines show in upWk and delWk)
    postInval,        \* per run: cache invalidations after the execute phase
    prevRun,          \* per run: summary of the run that ended before it
    lastRun,          \* summary of the run that ended last
    broadcasts,       \* the syncStatus and syncResult messages handed to
                      \* hub.Broadcast so far (log lines are left out)
    \* cmd/sync/main.go
    cliErr,           \* what runSyncLogic returned, "none" before that
    \* pkg/webdav/client.go: listFilesInternal
    listDir,          \* the directory listed: segments of WebDAV URL and path
    davPages,         \* the pages the server serves the directory in
    listResult,       \* what listFilesInternal returned
    \* pkg/websocket/hub.go
    hubClients,       \* h.clients: the clients in the map
    send,             \* per client: the messages buffered in its send channel
    closed,           \* per client: the number of close(client.send) so far
    clientPc,         \* per client: where ServeWs and the pumps are
    bcastPending,     \* messages whose Broadcast call waits on h.broadcast
    bcastDone         \* messages whose Broadcast call has returned

mainVars == <<syncMutex, appConfig, pc, isFullSync, mode, activeConfig,
              response, outcome>>
runVars == <<nodeImageFiles, webdavFileInfos, listed, filesToUpload,
             filesToDelete, upWk, delWk, counts, result>>
sideVars == <<niImages, davFiles, rootExists>>
bookVars == <<runs, adapterCalls, postInval, prevRun, lastRun, broadcasts>>
engineVars == <<mainVars, webdavCache, runVars, sideVars, bookVars>>
listVars == <<listDir, davPages, listResult>>
hubVars == <<hubClients, send, closed, clientPc, bcastPending, bcastDone>>
\* State of the command-line variant, of the WebDAV listing and of the
\* websocket hub, which the runs of the server leave alone.
otherVars == <<cliErr, listVars, hubVars>>
vars == <<engineVars, otherVars>>

NoWorkers == [f \in {} |-> "wait"]

\* The websocket clients, the broadcast messages of the hub on its own.
Clients == 1..MaxClients
Msgs == 1..MaxBroadcasts

\* Message{Type, Content} as runSync hands it to hub.Broadcast; run is the
\* number of the run that sent it.
Message(type, content, run) == [Type |-> type, Content |-> content, run |-> run]

\* The three messages of a run that is over, and those of the first n runs.
RunMessages(n) ==
    <<Message("syncStatus", "syncing", n), Message("syncResult", "result", n),
      Message("syncStatus", "idle", n)>>
RECURSIVE PastBroadcasts(_)
PastBroadcasts(n) ==
    IF n = 0 THEN <<>> ELSE PastBroadcasts(n - 1) \o RunMessages(n)

\* No listing has been asked for.
NoListing == [err |-> "none", infos |-> NilSlice]

\* The command-line variant is not running.
CliIdle == cliErr = "none"

\* Nothing is being listed page by page.
ListIdle ==
    /\ listDir = <<>>
    /\ davPages = <<>>
    /\ listResult = NoListing

\* NewHub: no client, no message.
HubIdle ==
    /\ hubClients = {}
    /\ send = [c \in Clients |-> <<>>]
    /\ closed = [c \in Clients |-> 0]
    /\ clientPc = [c \in Clients |-> "none"]
    /\ bcastPending = {}
    /\ bcastDone = {}

NoRun == [ran |-> FALSE, okOps |-> 0, listLen |-> -1, fullOk |-> FALSE]

\* The process has started: with one of the configurations, and with the
\* image host and the WebDAV folder holding one of the given contents.
EngineInit(configs, sources, folders) ==
    /\ syncMutex = FALSE
    /\ appConfig \in configs
    /\ pc = [p \in Procs |-> "idle"]
    /\ isFullSync = [p \in Procs |-> FALSE]
    /\ mode = [p \in Procs |-> "none"]
    /\ activeConfig = [p \in Procs |-> NoConfig]
    /\ response = [p \in Procs |-> "none"]
    /\ outcome = [p \in Procs |-> "none"]
    /\ webdavCache = NilSlice
    /\ nodeImageFiles = [p \in Procs |-> <<>>]
    /\ webdavFileInfos = [p \in Procs |-> <<>>]
    /\ listed = [p \in Procs |-> "no"]
    /\ filesToUpload = [p \in Procs |-> <<>>]
    /\ filesToDelete = [p \in Procs |-> {}]
    /\ upWk = [p \in Procs |-> <<>>]
    /\ delWk = [p \in Procs |-> NoWorkers]
    /\ counts = [p \in Procs |-> NoCounts]
    /\ result = [p \in Procs |-> NoResult]
    /\ niImages \in sources
    /\ davFiles \in folders
    /\ rootExists \in (IF davFiles = {} THEN BOOLEAN ELSE {TRUE})
    /\ runs = 0
    /\ adapterCalls = [p \in Procs |-> 0]
    /\ postInval = [p \in Procs |-> 0]
    /\ prevRun = [p \in Procs |-> NoRun]
    /\ lastRun = NoRun
    /\ broadcasts = <<>>

InitWith(configs, sources, folders) ==
    /\ EngineInit(configs, sources, folders)
    /\ CliIdle /\ ListIdle /\ HubIdle

Init ==
    InitWith(InitConfigs,
             SeqsUpTo({ImageInfo(n) : n \in Names}, MaxSrcLen),
             SUBSET Names)

\* ----------------------------------------------------------------- main.go

Methods == {"POST", "GET"}
Modes == {"full", "incremental", ""}

\* A goroutine's run-local state as it is before a run.
ResetRun(p) ==
    /\ nodeImageFiles' = [nodeImageFiles EXCEPT ![p] = <<>>]
    /\ webdavFileInfos' = [webdavFileInfos EXCEPT ![p] = <<>>]
    /\ listed' = [listed EXCEPT ![p] = "no"]
    /\ filesToUpload' = [filesToUpload EXCEPT ![p] = <<>>]
    /\ filesToDelete' = [filesToDelete EXCEPT ![p] = {}]
    /\ upWk' = [upWk EXCEPT ![p] = <<>>]
    /\ delWk' = [delWk EXCEPT ![p] = NoWorkers]
    /\ counts' = [counts EXCEPT ![p] = NoCounts]
    /\ result' = [result EXCEPT ![p] = NoResult]

\* The goroutine has ended: its locals are gone.
Forget(p) ==
    /\ pc' = [pc EXCEPT ![p] = "idle"]
    /\ isFullSync' = [isFullSync EXCEPT ![p] = FALSE]
    /\ mode' = [mode EXCEPT ![p] = "none"]
    /\ activeConfig' = [activeConfig EXCEPT ![p] = NoConfig]
    /\ response' = [response EXCEPT ![p] = "none"]
    /\ outcome' = [outcome EXCEPT ![p] = "none"]
    /\ adapterCalls' = [adapterCalls EXCEPT ![p] = 0]
    /\ postInval' = [postInval EXCEPT ![p] = 0]
    /\ prevRun' = [prevRun EXCEPT ![p] = NoRun]
    /\ ResetRun(p)

\* The goroutines are interchangeable: a trigger is served by the first
\* idle one.
FirstIdle(p) == pc[p] = "idle" /\ \A q \in Procs : q < p => pc[q] # "idle"

\* syncHandler: anything but POST is answered 405 and changes nothing; a
\* POST starts one goroutine running runSync(mode == "full") and is answered
\* 200 at once.
\* A trigger is taken while the runs accepted and the triggers waiting for
\* their TryLock stay within MaxRuns, and once the rejected triggers before
\* it are over.
MayTrigger ==
    /\ runs + Cardinality({q \in Procs : pc[q] = "runSync"}) < MaxRuns
    /\ \A q \in Procs : pc[q] # "exit"

\* (variant) a handler that takes every mode it is given for "full"
IsFullModeIfGiven(m) == m # ""

\* isFullSync := mode == "full"
IsFullMode(m) == m = "full"

SyncHandler(p, method, m) ==
    /\ FirstIdle(p)
    /\ MayTrigger
    /\ IF method # "POST"
       THEN UNCHANGED <<response, pc, isFullSync, mode, outcome>>
       ELSE /\ response' = [response EXCEPT ![p] = "200 started"]
            /\ pc' = [pc EXCEPT ![p] = "runSync"]
            /\ isFullSync' = [isFullSync EXCEPT ![p] = IsFullMode(m)]
            /\ mode' = [mode EXCEPT ![p] = m]
            /\ outcome' = [outcome EXCEPT ![p] = "pending"]
    /\ UNCHANGED <<syncMutex, appConfig, activeConfig, webdavCache, runVars,
                   sideVars, bookVars, otherVars>>

\* The timer goroutine of main: safeGo(false) at start and on every tick.
TimerTick(p) ==
    /\ FirstIdle(p)
    /\ MayTrigger
    /\ pc' = [pc EXCEPT ![p] = "runSync"]
    /\ isFullSync' = [isFullSync EXCEPT ![p] = FALSE]
    /\ mode' = [mode EXCEPT ![p] = "timer"]
    /\ outcome' = [outcome EXCEPT ![p] = "pending"]
    /\ UNCHANGED <<syncMutex, appConfig, activeConfig, response, webdavCache,
                   runVars, sideVars, bookVars, otherVars>>

\* (variant) a lock that is always granted
TryLockAlways == TRUE

\* syncMutex.TryLock()
TryLock == ~syncMutex

\* (variant) the rejected trigger stays queued for another attempt
SkipRunRetry(p) ==
    /\ outcome' = [outcome EXCEPT ![p] = "skipped"]
    /\ pc' = [pc EXCEPT ![p] = "runSync"]
    /\ UNCHANGED runVars

\* (variant) the rejected trigger is reported as a failed run
SkipRunFail(p) ==
    /\ outcome' = [outcome EXCEPT ![p] = "skipped"]
    /\ pc' = [pc EXCEPT ![p] = "exit"]
    /\ result' = [result EXCEPT ![p] = FailResult("busy")]
    /\ UNCHANGED <<nodeImageFiles, webdavFileInfos, listed, filesToUpload,
                   filesToDelete, upWk, delWk, counts>>

\* runSync when TryLock failed: warn (on the log and on the websocket) and
\* return.
SkipRun(p) ==
    /\ outcome' = [outcome EXCEPT ![p] = "skipped"]
    /\ pc' = [pc EXCEPT ![p] = "exit"]
    /\ UNCHANGED runVars

\* runSync up to the copy of the configuration.
RunSyncEnter(p) ==
    /\ pc[p] = "runSync"
    /\ IF TryLock
       THEN /\ syncMutex' = TRUE
            /\ pc' = [pc EXCEPT ![p] = "locked"]
            /\ outcome' = [outcome EXCEPT ![p] = "running"]
            /\ prevRun' = [prevRun EXCEPT ![p] = lastRun]
            /\ runs' = runs + 1
            /\ UNCHANGED runVars
       ELSE /\ SkipRun(p)
            /\ UNCHANGED <<syncMutex, prevRun, runs>>
    /\ mode' = [mode EXCEPT ![p] = "none"]
    /\ UNCHANGED <<appConfig, isFullSync, activeConfig, response,
                   webdavCache, sideVars, adapterCalls, postInval, lastRun,
                   broadcasts, otherVars>>

\* (variant) a hub that drops what it is handed
BroadcastNothing(ms) == UNCHANGED broadcasts

\* hub.Broadcast of each message of ms in turn, as far as the order of the
\* messages goes.
Broadcast(ms) == broadcasts' = broadcasts \o ms

\* (variant) a run that takes the complete configuration it is built with
CopyStartupConfig(p) ==
    /\ pc[p] = "locked"
    /\ Broadcast(<<Message("syncStatus", "syncing", runs)>>)
    /\ activeConfig' = [activeConfig EXCEPT ![p] = FullConfig]
    /\ pc' = [pc EXCEPT ![p] = "validate"]
    /\ UNCHANGED <<syncMutex, appConfig, isFullSync, mode, response, outcome,
                   webdavCache, runVars, sideVars, runs, adapterCalls,
                   postInval, prevRun, lastRun, otherVars>>

\* runSync with the lock: broadcast syncStatus "syncing", then
\* activeConfig := *appConfig under configMutex.RLock.
CopyConfig(p) ==
    /\ pc[p] = "locked"
    /\ Broadcast(<<Message("syncStatus", "syncing", runs)>>)
    /\ activeConfig' = [activeConfig EXCEPT ![p] = appConfig]
    /\ pc' = [pc EXCEPT ![p] = "validate"]
    /\ UNCHANGED <<syncMutex, appConfig, isFullSync, mode, response, outcome,
                   webdavCache, runVars, sideVars, runs, adapterCalls,
                   postInval, prevRun, lastRun, otherVars>>

\* Successful operations of the run, as the remote side saw them.
OkOps(p) ==
    Cardinality({i \in DOMAIN upWk[p] : upWk[p][i] = "ok"})
    + Cardinality({f \in DOMAIN delWk[p] : delWk[p][f] = "ok"})

ReachedDiff(r) == r.Message \in {"upToDate", "summary"}

\* What is remembered of a run once it has ended.
Summary(p) ==
    [ran |-> TRUE, okOps |-> OkOps(p),
     listLen |-> IF ReachedDiff(result[p]) THEN Len(webdavFileInfos[p]) ELSE -1,
     fullOk |-> isFullSync[p] /\ result[p].Success]

\* runSync after RunSync returned: broadcast the syncResult, then
\* syncStatus "idle", then the deferred syncMutex.Unlock().
RunSyncReturn(p) ==
    /\ pc[p] = "return"
    /\ Broadcast(<<Message("syncResult", "result", runs),
                   Message("syncStatus", "idle", runs)>>)
    /\ syncMutex' = FALSE
    /\ lastRun' = Summary(p)
    /\ Forget(p)
    /\ UNCHANGED <<appConfig, webdavCache, sideVars, runs, otherVars>>

\* A skipped trigger is over: nothing of it is left.
Exit(p) ==
    /\ pc[p] = "exit"
    /\ Forget(p)
    /\ UNCHANGED <<syncMutex, appConfig, webdavCache, sideVars, runs,
                   broadcasts, lastRun, otherVars>>

\* --------------------------------------------------------- sync.go: RunSync

Called(p) == adapterCalls' = [adapterCalls EXCEPT ![p] = @ + 1]

\* (variant) a failure Result that carries the totals gathered so far
FailWithTotals(p, msg) ==
    /\ result' = [result EXCEPT ![p] =
          [FailResult(msg) EXCEPT !.TotalNodeImageFiles = Len(niImages)]]
    /\ pc' = [pc EXCEPT ![p] = "return"]

\* return Result{Success: false, Message: ..., Error: err}
Fail(p, msg) ==
    /\ result' = [result EXCEPT ![p] = FailResult(msg)]
    /\ pc' = [pc EXCEPT ![p] = "return"]

\* Step 1: the configuration check.
Validate(p) ==
    /\ pc[p] = "validate"
    /\ IF ConfigMissing(activeConfig[p], isFullSync[p])
       THEN Fail(p, "config")
       ELSE /\ pc' = [pc EXCEPT ![p] = "connect"]
            /\ UNCHANGED result
    /\ UNCHANGED <<syncMutex, appConfig, isFullSync, mode, activeConfig,
                   response, outcome, webdavCache, nodeImageFiles,
                   webdavFileInfos, listed, filesToUpload, filesToDelete, upWk,
                   delWk, counts, sideVars, bookVars, otherVars>>

\* The WebDAV server's answers to a PROPFIND of the base collection and to
\* the MKCOL that creates it, by status code; 0 stands for a request that
\* got no answer (c.do returned an error).
PropfindAnswers(exists) ==
    IF exists THEN {207, 200, 500, 0} ELSE {404, 500, 0}
MkcolAnswers == {201, 409, 0}

\* Client.Connect on the PROPFIND's answer: 404 goes on to MKCOL, 207 and
\* 200 are success, anything else is an error.
AfterPropfind(status) ==
    IF status = 0 THEN "error"
    ELSE IF status = 404 THEN "mkcol"
    ELSE IF status # 207 /\ status # 200 THEN "error"
    ELSE "ok"

\* (variant) a Connect that takes any answer to its MKCOL for success
MkcolAnswered(status) == status # 0

\* Client.Connect on the MKCOL's answer: only 201 Created is success.
MkcolCreated(status) == status = 201

\* RunSync after a successful Connect.
Connected(p) ==
    /\ pc' = [pc EXCEPT ![p] =
                 IF isFullSync[p] THEN "testConnection" ELSE "listSource"]
    /\ UNCHANGED result

\* webdavClient.Connect: the PROPFIND of the base path
Connect(p) ==
    /\ pc[p] = "connect"
    /\ Called(p)
    /\ \E status \in PropfindAnswers(rootExists) :
          CASE AfterPropfind(status) = "ok" -> Connected(p)
            [] AfterPropfind(status) = "mkcol" ->
                  /\ pc' = [pc EXCEPT ![p] = "mkcol"]
                  /\ UNCHANGED result
            [] OTHER -> Fail(p, "connectWebDAV")
    /\ UNCHANGED <<syncMutex, appConfig, isFullSync, mode, activeConfig,
                   response, outcome, webdavCache, nodeImageFiles,
                   webdavFileInfos, listed, filesToUpload, filesToDelete, upWk,
                   delWk, counts, sideVars, runs, broadcasts, postInval,
                   prevRun, lastRun, otherVars>>

\* webdavClient.Connect: the MKCOL of the base path after a 404; the server
\* has created the collection when it answers 201.
Mkcol(p) ==
    /\ pc[p] = "mkcol"
    /\ \E status \in MkcolAnswers :
          /\ rootExists' = (rootExists \/ status = 201)
          /\ IF MkcolCreated(status)
             THEN Connected(p)
             ELSE Fail(p, "connectWebDAV")
    /\ UNCHANGED <<syncMutex, appConfig, isFullSync, mode, activeConfig,
                   response, outcome, webdavCache, nodeImageFiles,
                   webdavFileInfos, listed, filesToUpload, filesToDelete, upWk,
                   delWk, counts, niImages, davFiles, bookVars, otherVars>>

\* nodeImageClient.TestConnection (full mode only)
TestConnection(p) ==
    /\ pc[p] = "testConnection"
    /\ Called(p)
    /\ \E ok \in BOOLEAN :
          IF ok
          THEN /\ pc' = [pc EXCEPT ![p] = "listSource"]
               /\ UNCHANGED result
          ELSE Fail(p, "connectNodeImage")
    /\ UNCHANGED <<syncMutex, appConfig, isFullSync, mode, activeConfig,
                   response, outcome, webdavCache, nodeImageFiles,
                   webdavFileInfos, listed, filesToUpload, filesToDelete, upWk,
                   delWk, counts, sideVars, runs, broadcasts, postInval,
                   prevRun, lastRun, otherVars>>

\* (variant) a run that goes on to the destination without the source
\* listing
ListSourceSkipped(p) ==
    /\ pc[p] = "listSource"
    /\ pc' = [pc EXCEPT ![p] =
                 IF isFullSync[p] THEN "invalidate" ELSE "readCache"]
    /\ UNCHANGED <<syncMutex, appConfig, isFullSync, mode, activeConfig,
                   response, outcome, webdavCache, runVars, sideVars, bookVars,
                   otherVars>>

\* GetImageListCookie / GetImageListAPIKey
ListSource(p) ==
    /\ pc[p] = "listSource"
    /\ Called(p)
    /\ \E ok \in BOOLEAN :
          IF ok
          THEN /\ nodeImageFiles' = [nodeImageFiles EXCEPT ![p] = niImages]
               /\ pc' = [pc EXCEPT ![p] =
                            IF isFullSync[p] THEN "invalidate" ELSE "readCache"]
               /\ UNCHANGED result
          ELSE /\ Fail(p, "listNodeImage")
               /\ UNCHANGED nodeImageFiles
    /\ UNCHANGED <<syncMutex, appConfig, isFullSync, mode, activeConfig,
                   response, outcome, webdavCache, webdavFileInfos, listed,
                   filesToUpload, filesToDelete, upWk, delWk, counts, sideVars,
                   runs, broadcasts, postInval, prevRun, lastRun, otherVars>>

\* (variant) an invalidation that leaves the snapshot in place
InvalidateNothing == UNCHANGED webdavCache

\* InvalidateWebdavCache
InvalidateWebdavCache == webdavCache' = NilSlice

\* if isFullSync { InvalidateWebdavCache() }
InvalidateIfFull(p) ==
    /\ pc[p] = "invalidate"
    /\ InvalidateWebdavCache
    /\ pc' = [pc EXCEPT ![p] = "readCache"]
    /\ UNCHANGED <<syncMutex, appConfig, isFullSync, mode, activeConfig,
                   response, outcome, runVars, sideVars, bookVars, otherVars>>

\* cachedFiles := webdavCache; a non-nil snapshot is used as the listing.
ReadCache(p) ==
    /\ pc[p] = "readCache"
    /\ IF ~webdavCache.isNil
       THEN /\ webdavFileInfos' = [webdavFileInfos EXCEPT ![p] = webdavCache.elems]
            /\ listed' = [listed EXCEPT ![p] = "cache"]
            /\ pc' = [pc EXCEPT ![p] = "diff"]
       ELSE /\ pc' = [pc EXCEPT ![p] = "listDest"]
            /\ UNCHANGED <<webdavFileInfos, listed>>
    /\ UNCHANGED <<syncMutex, appConfig, isFullSync, mode, activeConfig,
                   response, outcome, webdavCache, nodeImageFiles,
                   filesToUpload, filesToDelete, upWk, delWk, counts, result,
                   sideVars, bookVars, otherVars>>

\* What ListFilesWithStats returns for the folder: one FileInfo per file,
\* its Path the base path joined with the file's base name.
DavListing(dir) == [i \in DOMAIN SetToSeq(davFiles) |->
                       FileInfo(dir, SetToSeq(davFiles)[i])]

\* (variant) a listing that starts from an empty slice that is not nil
AppendedToEmpty(s) == Slice(s)

\* listFilesInternal appends to "var allFileInfos []FileInfo": the slice it
\* returns is nil when nothing was appended.
Appended(s) == IF Len(s) = 0 THEN NilSlice ELSE Slice(s)

\* webdavClient.ListFilesWithStats, then webdavCache = infos.
ListDest(p) ==
    /\ pc[p] = "listDest"
    /\ Called(p)
    /\ \E ok \in BOOLEAN :
          IF ok
          THEN LET infos == DavListing(activeConfig[p].WebdavBasePath)
               IN /\ webdavFileInfos' = [webdavFileInfos EXCEPT ![p] = infos]
                  /\ webdavCache' = Appended(infos)
                  /\ listed' = [listed EXCEPT ![p] = "fresh"]
                  /\ pc' = [pc EXCEPT ![p] = "diff"]
                  /\ UNCHANGED result
          ELSE /\ Fail(p, "listWebDAV")
               /\ UNCHANGED <<webdavFileInfos, webdavCache, listed>>
    /\ UNCHANGED <<syncMutex, appConfig, isFullSync, mode, activeConfig,
                   response, outcome, nodeImageFiles, filesToUpload,
                   filesToDelete, upWk, delWk, counts, sideVars, runs,
                   broadcasts, postInval, prevRun, lastRun, otherVars>>

\* (variant) no delete list acted on in any mode
DeletePlanNever(isFull, filesToDeleteRaw) == {}

\* (variant) the delete list acted on in every mode
DeletePlanAnyMode(isFull, filesToDeleteRaw) == filesToDeleteRaw

\* filesToDelete: the diff's delete list in full mode, nothing otherwise.
DeletePlan(isFull, filesToDeleteRaw) == IF isFull THEN filesToDeleteRaw ELSE {}

\* (variant) a plan that counts as empty when it has no upload
NothingToUpload(toUpload, toDelete) == Len(toUpload) = 0

\* len(filesToUpload) == 0 && len(filesToDelete) == 0
NothingToDo(toUpload, toDelete) == Len(toUpload) = 0 /\ toDelete = {}

\* Step 3 up to the start of the goroutines: totals, diffFiles, the mode
\* gate on the delete list, the "nothing to do" return.
Diff(p) ==
    /\ pc[p] = "diff"
    /\ LET webdavFiles == [i \in DOMAIN webdavFileInfos[p] |->
                              webdavFileInfos[p][i].Path]
           d == diffFiles(nodeImageFiles[p], webdavFiles)
           del == DeletePlan(isFullSync[p], d.toDelete)
       IN /\ filesToUpload' = [filesToUpload EXCEPT ![p] = d.toUpload]
          /\ filesToDelete' = [filesToDelete EXCEPT ![p] = del]
          /\ IF NothingToDo(d.toUpload, del)
             THEN /\ result' = [result EXCEPT ![p] =
                        [Success |-> TRUE, Message |-> "upToDate",
                         Uploaded |-> 0, Deleted |-> 0, UploadSize |-> 0,
                         Error |-> FALSE,
                         TotalNodeImageFiles |-> Len(nodeImageFiles[p]),
                         TotalNodeImageSize |-> SumSizes(nodeImageFiles[p]),
                         TotalWebDAVFiles |-> Len(webdavFileInfos[p]),
                         TotalWebDAVSize |-> SumSizes(webdavFileInfos[p])]]
                  /\ pc' = [pc EXCEPT ![p] = "return"]
                  /\ UNCHANGED <<upWk, delWk>>
             ELSE /\ upWk' = [upWk EXCEPT ![p] =
                                 [i \in DOMAIN d.toUpload |-> "wait"]]
                  /\ delWk' = [delWk EXCEPT ![p] = [f \in del |-> "wait"]]
                  /\ pc' = [pc EXCEPT ![p] = "wait"]
                  /\ UNCHANGED result
    /\ UNCHANGED <<syncMutex, appConfig, isFullSync, mode, activeConfig,
                   response, outcome, webdavCache, nodeImageFiles,
                   webdavFileInfos, listed, counts, sideVars, bookVars,
                   otherVars>>

\* ------------------------------------------------- sync.go: the goroutines

\* Goroutines of the run that hold a slot of guard.
InFlight(p) ==
    Cardinality({i \in DOMAIN upWk[p] : upWk[p][i] \in {"fetch", "put"}})
    + Cardinality({f \in DOMAIN delWk[p] : delWk[p][f] = "del"})

\* (variant) a gate whose slots are never given back
GuardLeaks(p) ==
    Cardinality({i \in DOMAIN upWk[p] : upWk[p][i] # "wait"})
    + Cardinality({f \in DOMAIN delWk[p] : delWk[p][f] # "wait"}) < GuardSize

\* (variant) a gate that admits every goroutine
GuardUnbounded(p) == TRUE

\* guard <- struct{}{} goes through while the channel's buffer has room.
GuardHasRoom(p) == InFlight(p) < GuardSize

\* An upload goroutine takes a slot and calls DownloadImage.
UploadAdmit(p, i) ==
    /\ i \in DOMAIN upWk[p]
    /\ upWk[p][i] = "wait"
    /\ GuardHasRoom(p)
    /\ upWk' = [upWk EXCEPT ![p][i] = "fetch"]
    /\ UNCHANGED <<mainVars, webdavCache, nodeImageFiles, webdavFileInfos,
                   listed, filesToUpload, filesToDelete, delWk, counts, result,
                   sideVars, bookVars, otherVars>>

\* (variant) an upload that is queued again when its download fails
AfterFetchRetry(ok) == IF ok THEN "put" ELSE "wait"

\* uploadFile after DownloadImage: UploadFile is called, or the error is
\* returned.
AfterFetch(ok) == IF ok THEN "put" ELSE "fail"

\* uploadFile: DownloadImage returned; on success UploadFile is called.
FetchDone(p, i) ==
    /\ i \in DOMAIN upWk[p]
    /\ upWk[p][i] = "fetch"
    /\ \E ok \in BOOLEAN :
          upWk' = [upWk EXCEPT ![p][i] = AfterFetch(ok)]
    /\ UNCHANGED <<mainVars, webdavCache, nodeImageFiles, webdavFileInfos,
                   listed, filesToUpload, filesToDelete, delWk, counts, result,
                   sideVars, bookVars, otherVars>>

\* uploadFile: UploadFile to Join(basePath, Filename) returned; the
\* goroutine counts the outcome and releases its slot.
PutDone(p, i) ==
    /\ i \in DOMAIN upWk[p]
    /\ upWk[p][i] = "put"
    /\ \E ok \in BOOLEAN :
          IF ok
          THEN /\ upWk' = [upWk EXCEPT ![p][i] = "ok"]
               /\ davFiles' = davFiles \cup
                     {Base(PathJoin(activeConfig[p].WebdavBasePath,
                                filesToUpload[p][i].Filename))}
          ELSE /\ upWk' = [upWk EXCEPT ![p][i] = "fail"]
               /\ UNCHANGED davFiles
    /\ UNCHANGED <<mainVars, webdavCache, nodeImageFiles, webdavFileInfos,
                   listed, filesToUpload, filesToDelete, delWk, counts, result,
                   niImages, rootExists, bookVars, otherVars>>

\* A delete goroutine takes a slot and calls DeleteFile(filePath).
DeleteAdmit(p, f) ==
    /\ f \in DOMAIN delWk[p]
    /\ delWk[p][f] = "wait"
    /\ GuardHasRoom(p)
    /\ delWk' = [delWk EXCEPT ![p][f] = "del"]
    /\ UNCHANGED <<mainVars, webdavCache, nodeImageFiles, webdavFileInfos,
                   listed, filesToUpload, filesToDelete, upWk, counts, result,
                   sideVars, bookVars, otherVars>>

\* DeleteFile returned; the goroutine counts the outcome and releases its
\* slot.
DeleteDone(p, f) ==
    /\ f \in DOMAIN delWk[p]
    /\ delWk[p][f] = "del"
    /\ \E ok \in BOOLEAN :
          IF ok
          THEN /\ delWk' = [delWk EXCEPT ![p][f] = "ok"]
               /\ davFiles' = davFiles \ {Base(f)}
          ELSE /\ delWk' = [delWk EXCEPT ![p][f] = "fail"]
               /\ UNCHANGED davFiles
    /\ UNCHANGED <<mainVars, webdavCache, nodeImageFiles, webdavFileInfos,
                   listed, filesToUpload, filesToDelete, upWk, counts, result,
                   niImages, rootExists, bookVars, otherVars>>

Finished(st) == st \in {"ok", "fail"}

\* (variant) a join that does not wait
WaitNoBarrier(p) == TRUE

\* (variant) a goroutine that never calls wg.Done(): the join returns only
\* when there is no goroutine
WaitMissingDone(p) == upWk[p] = <<>> /\ delWk[p] = NoWorkers

\* (variant) a join that gives up at the first failure
WaitFirstError(p) ==
    \/ \E i \in DOMAIN upWk[p] : upWk[p][i] = "fail"
    \/ \E f \in DOMAIN delWk[p] : delWk[p][f] = "fail"
    \/ /\ \A i \in DOMAIN upWk[p] : Finished(upWk[p][i])
       /\ \A f \in DOMAIN delWk[p] : Finished(delWk[p][f])

\* wg.Wait() returns once every goroutine has called wg.Done().
WaitReturns(p) ==
    /\ \A i \in DOMAIN upWk[p] : Finished(upWk[p][i])
    /\ \A f \in DOMAIN delWk[p] : Finished(delWk[p][f])

\* uploadCount++ and its three siblings run in the goroutines without a
\* lock or an atomic: n increments of one counter leave any value from 1 to
\* n (an increment can overwrite another's), and 0 only when n is 0.
Increments(n) == IF n = 0 THEN {0} ELSE 1..n

NumUp(p, st) == Cardinality({i \in DOMAIN upWk[p] : upWk[p][i] = st})
NumDel(p, st) == Cardinality({f \in DOMAIN delWk[p] : delWk[p][f] = st})

\* wg.Wait(): the counters as the coordinator reads them after the join.
Wait(p) ==
    /\ pc[p] = "wait"
    /\ WaitReturns(p)
    /\ \E uc \in Increments(NumUp(p, "ok")), ue \in Increments(NumUp(p, "fail")),
          dc \in Increments(NumDel(p, "ok")), de \in Increments(NumDel(p, "fail")) :
          counts' = [counts EXCEPT ![p] =
                        [uploadCount |-> uc, deleteCount |-> dc,
                         uploadErrCount |-> ue, deleteErrCount |-> de]]
    /\ pc' = [pc EXCEPT ![p] = "finish"]
    /\ UNCHANGED <<syncMutex, appConfig, isFullSync, mode, activeConfig,
                   response, outcome, webdavCache, nodeImageFiles,
                   webdavFileInfos, listed, filesToUpload, filesToDelete, upWk,
                   delWk, result, sideVars, bookVars, otherVars>>

\* (variant) invalidate only when both kinds of operation succeeded
ChangedBoth(c) == c.uploadCount > 0 /\ c.deleteCount > 0

\* (variant) invalidate only when a delete succeeded
ChangedDeletesOnly(c) == c.deleteCount > 0

\* uploadCount > 0 || deleteCount > 0
Changed(c) == c.uploadCount > 0 \/ c.deleteCount > 0

\* (variant) a verdict that looks at the uploads only
FailedUploadsOnly(c) == c.uploadErrCount > 0

\* uploadErrCount > 0 || deleteErrCount > 0
Failed(c) == c.uploadErrCount > 0 \/ c.deleteErrCount > 0

\* (variant) the listed sizes of the uploads that succeeded
UploadedSize(toUpload, wk) ==
    SumSizes([i \in DOMAIN toUpload |->
                 IF wk[i] = "ok" THEN toUpload[i]
                 ELSE [toUpload[i] EXCEPT !.Size = 0]])

\* totalUploadSize: the sum of file.Size over filesToUpload, taken before
\* the goroutines start.
TotalUploadSize(toUpload, wk) == SumSizes(toUpload)

\* After the join: the conditional invalidation and the Result.
Finish(p) ==
    /\ pc[p] = "finish"
    /\ IF Changed(counts[p])
       THEN /\ InvalidateWebdavCache
            /\ postInval' = [postInval EXCEPT ![p] = @ + 1]
       ELSE UNCHANGED <<webdavCache, postInval>>
    /\ result' = [result EXCEPT ![p] =
          [Success |-> ~Failed(counts[p]),
           Message |-> "summary",
           Uploaded |-> counts[p].uploadCount,
           Deleted |-> counts[p].deleteCount,
           UploadSize |-> TotalUploadSize(filesToUpload[p], upWk[p]),
           Error |-> Failed(counts[p]),
           TotalNodeImageFiles |-> Len(nodeImageFiles[p]),
           TotalNodeImageSize |-> SumSizes(nodeImageFiles[p]),
           TotalWebDAVFiles |-> Len(webdavFileInfos[p]),
           TotalWebDAVSize |-> SumSizes(webdavFileInfos[p])]]
    /\ pc' = [pc EXCEPT ![p] = "return"]
    /\ UNCHANGED <<syncMutex, appConfig, isFullSync, mode, activeConfig,
                   response, outcome, nodeImageFiles, webdavFileInfos, listed,
                   filesToUpload, filesToDelete, upWk, delWk, counts, sideVars,
                   runs, broadcasts, adapterCalls, prevRun, lastRun,
                   otherVars>>

\* ------------------------------------------------------------ specification

Next ==
    \/ \E p \in Procs, method \in Methods, m \in Modes :
          SyncHandler(p, method, m)
    \/ \E p \in Procs : TimerTick(p)
    \/ \E p \in Procs : RunSyncEnter(p)
    \/ \E p \in Procs : CopyConfig(p)
    \/ \E p \in Procs : Validate(p)
    \/ \E p \in Procs : Connect(p)
    \/ \E p \in Procs : Mkcol(p)
    \/ \E p \in Procs : TestConnection(p)
    \/ \E p \in Procs : ListSource(p)
    \/ \E p \in Procs : InvalidateIfFull(p)
    \/ \E p \in Procs : ReadCache(p)
    \/ \E p \in Procs : ListDest(p)
    \/ \E p \in Procs : Diff(p)
    \/ \E p \in Procs : \E i \in DOMAIN upWk[p] : UploadAdmit(p, i)
    \/ \E p \in Procs : \E i \in DOMAIN upWk[p] : FetchDone(p, i)
    \/ \E p \in Procs : \E i \in DOMAIN upWk[p] : PutDone(p, i)
    \/ \E p \in Procs : \E f \in DOMAIN delWk[p] : DeleteAdmit(p, f)
    \/ \E p \in Procs : \E f \in DOMAIN delWk[p] : DeleteDone(p, f)
    \/ \E p \in Procs : Wait(p)
    \/ \E p \in Procs : Finish(p)
    \/ \E p \in Procs : RunSyncReturn(p)
    \/ \E p \in Procs : Exit(p)

Spec == Init /\ [][Next]_vars

\* A step of the goroutine p that runs runSync, or of a goroutine RunSync
\* started for it: everything but the arrival of a trigger.
RunStep(p) ==
    \/ RunSyncEnter(p)
    \/ CopyConfig(p)
    \/ Validate(p)
    \/ Connect(p)
    \/ Mkcol(p)
    \/ TestConnection(p)
    \/ ListSource(p)
    \/ InvalidateIfFull(p)
    \/ ReadCache(p)
    \/ ListDest(p)
    \/ Diff(p)
    \/ \E i \in DOMAIN upWk[p] : UploadAdmit(p, i)
    \/ \E i \in DOMAIN upWk[p] : FetchDone(p, i)
    \/ \E i \in DOMAIN upWk[p] : PutDone(p, i)
    \/ \E f \in DOMAIN delWk[p] : DeleteAdmit(p, f)
    \/ \E f \in DOMAIN delWk[p] : DeleteDone(p, f)
    \/ Wait(p)
    \/ Finish(p)
    \/ RunSyncReturn(p)
    \/ Exit(p)

\* The process starts with a configuration that is complete or lacks the
\* cookie, a source of at most one image and a folder that does not hold
\* every name: enough for each way RunSync returns (the failed check, a
\* failed adapter call, nothing to do, a plan of uploads, of deletes or of
\* both, executed with or without failures).
InitLive ==
    /\ Init
    /\ appConfig \in {FullConfig, [FullConfig EXCEPT !.NodeImageCookie = ""]}
    /\ Len(niImages) <= 1
    /\ davFiles # Names

\* The scheduler keeps running every goroutine that can run, and every
\* adapter call returns; triggers arrive or not.
SpecLive ==
    InitLive /\ [][Next]_vars /\ \A p \in Procs : WF_vars(RunStep(p))

\* The process starts with a complete configuration, a source listing that
\* may repeat a name and a folder that is empty or holds another file.
InitTwice ==
    InitWith({FullConfig},
             SeqsUpTo({ImageInfo(n) : n \in Names}, MaxDiffLen),
             {{}, {"b.jpg"}})

SpecTwice == InitTwice /\ [][Next]_vars

\* The cookies POST /api/config is given.
Cookies == {"", "c2"}

\* configHandler under configMutex.Lock: a POST whose body decodes sets
\* appConfig.NodeImageCookie; a GET, another method or a body that does not
\* decode changes nothing.
ConfigHandler(method, decodes, cookie) ==
    /\ IF method = "POST" /\ decodes
       THEN appConfig' = [appConfig EXCEPT !.NodeImageCookie = cookie]
       ELSE UNCHANGED appConfig
    /\ UNCHANGED <<syncMutex, pc, isFullSync, mode, activeConfig, response,
                   outcome, webdavCache, runVars, sideVars, bookVars,
                   otherVars>>

NextConfig ==
    \/ Next
    \/ \E method \in Methods, decodes \in BOOLEAN, cookie \in Cookies :
          ConfigHandler(method, decodes, cookie)

\* The server with its configuration endpoint: it starts with a complete
\* configuration, one image in the source and a folder that is empty or
\* holds another file.
InitConfig ==
    InitWith({FullConfig}, {<<ImageInfo("a.jpg")>>}, {{}, {"b.jpg"}})

SpecConfig == InitConfig /\ [][NextConfig]_vars

\* ------------------------------------- cmd/sync: the command-line variant

\* The goroutine that stands for the process of the command-line variant.
CliProc == 1

\* main of cmd/sync: the environment is read; with the cookie, the WebDAV
\* user name, password or base path unset the process exits, else
\* runSyncLogic is called.
CliMain(p) ==
    /\ pc[p] = "idle"
    /\ cliErr = "none"
    /\ IF \/ appConfig.NodeImageCookie = ""
          \/ appConfig.WebdavUsername = ""
          \/ appConfig.WebdavPassword = ""
          \/ appConfig.WebdavBasePath = <<>>
       THEN /\ cliErr' = "exit"
            /\ UNCHANGED <<pc, activeConfig>>
       ELSE /\ pc' = [pc EXCEPT ![p] = "cliTest"]
            /\ activeConfig' = [activeConfig EXCEPT ![p] = appConfig]
            /\ UNCHANGED cliErr
    /\ UNCHANGED <<syncMutex, appConfig, isFullSync, mode, response, outcome,
                   webdavCache, runVars, sideVars, bookVars, listVars,
                   hubVars>>

\* return fmt.Errorf(...) from runSyncLogic
CliFail(p, msg) ==
    /\ cliErr' = msg
    /\ pc' = [pc EXCEPT ![p] = "cliDone"]

\* runSyncLogic: nodeImageClient.TestConnection
CliTestConnection(p) ==
    /\ pc[p] = "cliTest"
    /\ \E ok \in BOOLEAN :
          IF ok
          THEN /\ pc' = [pc EXCEPT ![p] = "cliConnect"]
               /\ UNCHANGED cliErr
          ELSE CliFail(p, "connectNodeImage")
    /\ UNCHANGED <<syncMutex, appConfig, isFullSync, mode, activeConfig,
                   response, outcome, webdavCache, runVars, sideVars,
                   bookVars, listVars, hubVars>>

\* runSyncLogic: webdavClient.Connect, the PROPFIND and after a 404 the
\* MKCOL.
CliConnect(p) ==
    /\ pc[p] = "cliConnect"
    /\ \E status \in PropfindAnswers(rootExists), made \in MkcolAnswers :
          LET after == AfterPropfind(status)
              ok == after = "ok" \/ (after = "mkcol" /\ MkcolCreated(made))
          IN /\ rootExists' = (rootExists \/ (after = "mkcol" /\ made = 201))
             /\ IF ok
                THEN /\ pc' = [pc EXCEPT ![p] = "cliListSource"]
                     /\ UNCHANGED cliErr
                ELSE CliFail(p, "connectWebDAV")
    /\ UNCHANGED <<syncMutex, appConfig, isFullSync, mode, activeConfig,
                   response, outcome, webdavCache, runVars, niImages,
                   davFiles, bookVars, listVars, hubVars>>

\* runSyncLogic: nodeImageClient.GetImageList
CliListSource(p) ==
    /\ pc[p] = "cliListSource"
    /\ \E ok \in BOOLEAN :
          IF ok
          THEN /\ nodeImageFiles' = [nodeImageFiles EXCEPT ![p] = niImages]
               /\ pc' = [pc EXCEPT ![p] = "cliListDest"]
               /\ UNCHANGED cliErr
          ELSE /\ CliFail(p, "listNodeImage")
               /\ UNCHANGED nodeImageFiles
    /\ UNCHANGED <<syncMutex, appConfig, isFullSync, mode, activeConfig,
                   response, outcome, webdavCache, webdavFileInfos, listed,
                   filesToUpload, filesToDelete, upWk, delWk, counts, result,
                   sideVars, bookVars, listVars, hubVars>>

\* runSyncLogic: webdavClient.ListFiles
CliListDest(p) ==
    /\ pc[p] = "cliListDest"
    /\ \E ok \in BOOLEAN :
          IF ok
          THEN /\ webdavFileInfos' = [webdavFileInfos EXCEPT ![p] =
                      DavListing(activeConfig[p].WebdavBasePath)]
               /\ listed' = [listed EXCEPT ![p] = "fresh"]
               /\ pc' = [pc EXCEPT ![p] = "cliDiff"]
               /\ UNCHANGED cliErr
          ELSE /\ CliFail(p, "listWebDAV")
               /\ UNCHANGED <<webdavFileInfos, listed>>
    /\ UNCHANGED <<syncMutex, appConfig, isFullSync, mode, activeConfig,
                   response, outcome, webdavCache, nodeImageFiles,
                   filesToUpload, filesToDelete, upWk, delWk, counts, result,
                   sideVars, bookVars, listVars, hubVars>>

\* runSyncLogic: diffFiles, the "nothing to do" return, the start of the
\* goroutines. The delete list is acted on as diffFiles returns it.
CliDiff(p) ==
    /\ pc[p] = "cliDiff"
    /\ LET webdavFiles == [i \in DOMAIN webdavFileInfos[p] |->
                              webdavFileInfos[p][i].Path]
           d == diffFiles(nodeImageFiles[p], webdavFiles)
       IN /\ filesToUpload' = [filesToUpload EXCEPT ![p] = d.toUpload]
          /\ filesToDelete' = [filesToDelete EXCEPT ![p] = d.toDelete]
          /\ IF NothingToDo(d.toUpload, d.toDelete)
             THEN /\ cliErr' = "nil"
                  /\ pc' = [pc EXCEPT ![p] = "cliDone"]
                  /\ UNCHANGED <<upWk, delWk>>
             ELSE /\ upWk' = [upWk EXCEPT ![p] =
                                 [i \in DOMAIN d.toUpload |-> "wait"]]
                  /\ delWk' = [delWk EXCEPT ![p] =
                                  [f \in d.toDelete |-> "wait"]]
                  /\ pc' = [pc EXCEPT ![p] = "cliWait"]
                  /\ UNCHANGED cliErr
    /\ UNCHANGED <<syncMutex, appConfig, isFullSync, mode, activeConfig,
                   response, outcome, webdavCache, nodeImageFiles,
                   webdavFileInfos, listed, counts, result, sideVars,
                   bookVars, listVars, hubVars>>

\* (variant) a return value that reports the items that failed
CliReturnCounted(p) ==
    IF NumUp(p, "fail") + NumDel(p, "fail") > 0 THEN "itemsFailed" ELSE "nil"

\* runSyncLogic after wg.Wait(): return nil
CliReturn(p) == "nil"

\* runSyncLogic: wg.Wait() and the return.
CliWait(p) ==
    /\ pc[p] = "cliWait"
    /\ WaitReturns(p)
    /\ cliErr' = CliReturn(p)
    /\ pc' = [pc EXCEPT ![p] = "cliDone"]
    /\ UNCHANGED <<syncMutex, appConfig, isFullSync, mode, activeConfig,
                   response, outcome, webdavCache, runVars, sideVars,
                   bookVars, listVars, hubVars>>

NextCli ==
    \/ CliMain(CliProc)
    \/ CliTestConnection(CliProc)
    \/ CliConnect(CliProc)
    \/ CliListSource(CliProc)
    \/ CliListDest(CliProc)
    \/ CliDiff(CliProc)
    \/ \E i \in DOMAIN upWk[CliProc] : UploadAdmit(CliProc, i)
    \/ \E i \in DOMAIN upWk[CliProc] : FetchDone(CliProc, i)
    \/ \E i \in DOMAIN upWk[CliProc] : PutDone(CliProc, i)
    \/ \E f \in DOMAIN delWk[CliProc] : DeleteAdmit(CliProc, f)
    \/ \E f \in DOMAIN delWk[CliProc] : DeleteDone(CliProc, f)
    \/ CliWait(CliProc)

\* The command-line process starts with one of the configurations in its
\* environment, and with the image host and the folder holding any of the
\* contents.
InitCli ==
    InitWith(InitConfigs,
             SeqsUpTo({ImageInfo(n) : n \in Names}, MaxDiffLen),
             SUBSET Names)

SpecCli == InitCli /\ [][NextCli]_vars

\* --------------------------------- listFilesInternal checked on its own

\* What a listing is asked of: base is the path of WEBDAV_URL, p the path
\* handed to ListFiles, both as their segments (<<>> is "/").  The request
\* of newRequest goes to path.Join(base, p).
ListRequests ==
    {[base |-> <<"dav">>, p |-> BasePath], [base |-> <<>>, p |-> <<>>]}

RequestPath(dir) == dir.base \o dir.p

\* The members a folder can hold: a subfolder and the files.
Children == {"sub"} \cup Names

\* One <response> of a multistatus body.
DavResponse(href, length) == [Href |-> href, GetContentLength |-> length]

\* The response a server gives for the folder itself and for a member:
\* folders carry no getcontentlength, files carry their size in digits.
SelfResponse(dir) == DavResponse(RequestPath(dir), "")
ChildResponse(dir, name) ==
    DavResponse(Append(RequestPath(dir), name),
                IF name \in Names THEN ToString(SizeOf(name)) ELSE "")

\* A page the server answers with: a multistatus that starts with the
\* folder itself and goes on with members, or a failure (0: no answer).
\* Page i of k carries the Link header with rel="next" exactly when i < k,
\* and the link is an absolute URL with the path of the first request.
ListFailures == {500, 0}
OkPage(dir, names) ==
    [status |-> 207,
     responses |-> <<SelfResponse(dir)>>
                   \o [i \in DOMAIN names |-> ChildResponse(dir, names[i])]]
FailedPage(status) == [status |-> status, responses |-> <<>>]
PagesOf(dir) ==
    {OkPage(dir, names) : names \in SeqsUpTo(Children, MaxEntries)}
        \cup {FailedPage(st) : st \in ListFailures}
PageChains(dir) == UNION {[1..k -> PagesOf(dir)] : k \in 1..MaxPages}

\* strings.HasSuffix(strings.TrimRight(href, "/"), strings.TrimRight(path,
\* "/")) on segments: both start at a "/", so the characters match exactly
\* when the last segments do; the path "/" trims to "", a suffix of all.
HasSuffix(href, reqPath) ==
    /\ Len(reqPath) <= Len(href)
    /\ SubSeq(href, Len(href) - Len(reqPath) + 1, Len(href)) = reqPath

\* strconv.ParseInt with the error dropped: 0 for what is not a number.
ParseInt(str) ==
    IF \E n \in DOMAIN PlanNames : ToString(n) = str
    THEN CHOOSE n \in DOMAIN PlanNames : ToString(n) = str
    ELSE 0

\* The test that skips the folder itself, and the FileInfo values the
\* loop over ms.Responses appends for one page.
IsNotSelf(dir, r) == r.Href # RequestPath(dir)
IsListed(dir, r) ==
    /\ ~HasSuffix(r.Href, RequestPath(dir))
    /\ r.GetContentLength # ""
ListedInfo(dir, r) ==
    [Path |-> PathJoin(dir.p, Base(r.Href)),
     Size |-> ParseInt(r.GetContentLength)]
RECURSIVE PageInfos(_, _)
PageInfos(dir, rs) ==
    IF Len(rs) = 0 THEN <<>>
    ELSE (IF IsListed(dir, rs[1]) THEN <<ListedInfo(dir, rs[1])>> ELSE <<>>)
         \o PageInfos(dir, Tail(rs))

\* listFilesInternal from page i on, with the FileInfo values appended so
\* far: a page that fails returns nil and the error, the last page returns
\* the slice, nil when nothing was appended.
RECURSIVE listFilesInternal(_, _, _, _)
listFilesInternal(dir, pages, i, allFileInfos) ==
    IF pages[i].status # 207
    THEN [err |-> "list", infos |-> NilSlice]
    ELSE LET all == allFileInfos \o PageInfos(dir, pages[i].responses)
         IN  IF i < Len(pages)
             THEN listFilesInternal(dir, pages, i + 1, all)
             ELSE [err |-> "nil", infos |-> Appended(all)]

\* ListFilesWithStats is called on the folder, which the server answers page by
\* page.
ListFilesWithStats ==
    /\ listResult = NoListing
    /\ listResult' = listFilesInternal(listDir, davPages, 1, <<>>)
    /\ UNCHANGED <<engineVars, cliErr, listDir, davPages, hubVars>>

NextList == ListFilesWithStats

\* A folder and the pages its server answers with.
InitList ==
    /\ EngineInit({FullConfig}, {<<>>}, {Names})
    /\ CliIdle /\ HubIdle
    /\ listDir \in ListRequests
    /\ davPages \in PageChains(listDir)
    /\ listResult = NoListing

SpecList == InitList /\ [][NextList]_vars

\* ------------------------------------------- the websocket hub on its own

\* ServeWs: the connection is upgraded, the client made with its buffered
\* send channel, and the handler waits to hand it over on h.register.
ServeWs(c) ==
    /\ clientPc[c] = "none"
    /\ clientPc' = [clientPc EXCEPT ![c] = "registering"]
    /\ UNCHANGED <<engineVars, cliErr, listVars, hubClients, send, closed,
                   bcastPending, bcastDone>>

\* Hub.Run, case register: the client enters the map; ServeWs goes on and
\* starts the two pumps.
HubRegister(c) ==
    /\ clientPc[c] = "registering"
    /\ hubClients' = hubClients \cup {c}
    /\ clientPc' = [clientPc EXCEPT ![c] = "open"]
    /\ UNCHANGED <<engineVars, cliErr, listVars, send, closed, bcastPending,
                   bcastDone>>

\* writePump takes one message off the send channel; a channel that was
\* closed still gives what it holds.
WritePump(c) ==
    /\ clientPc[c] \in {"open", "unregistering", "gone"}
    /\ Len(send[c]) > 0
    /\ send' = [send EXCEPT ![c] = Tail(send[c])]
    /\ UNCHANGED <<engineVars, cliErr, listVars, hubClients, closed, clientPc,
                   bcastPending, bcastDone>>

\* readPump: ReadMessage fails (the peer is gone, or writePump has closed
\* the connection), and the deferred function waits on h.unregister.
ReadPumpFails(c) ==
    /\ clientPc[c] = "open"
    /\ clientPc' = [clientPc EXCEPT ![c] = "unregistering"]
    /\ UNCHANGED <<engineVars, cliErr, listVars, hubClients, send, closed,
                   bcastPending, bcastDone>>

\* The test of the unregister case: is the client in the map?
RegisteredOrNot(c) == TRUE
Registered(c) == c \in hubClients

\* Hub.Run, case unregister: a client that is in the map is deleted and
\* its channel closed; closed counts the calls of close.
HubUnregister(c) ==
    /\ clientPc[c] = "unregistering"
    /\ IF Registered(c)
       THEN /\ hubClients' = hubClients \ {c}
            /\ closed' = [closed EXCEPT ![c] = @ + 1]
       ELSE UNCHANGED <<hubClients, closed>>
    /\ clientPc' = [clientPc EXCEPT ![c] = "gone"]
    /\ UNCHANGED <<engineVars, cliErr, listVars, send, bcastPending,
                   bcastDone>>

\* Hub.Broadcast: the caller has marshalled the message and waits on the
\* unbuffered h.broadcast.
HubBroadcastCall(m) ==
    /\ m \notin bcastPending \cup bcastDone
    /\ bcastPending' = bcastPending \cup {m}
    /\ UNCHANGED <<engineVars, cliErr, listVars, hubClients, send, closed,
                   clientPc, bcastDone>>

\* Can the send on the client's channel go ahead?  The channel holds
\* SendCap messages (256 in ServeWs).
HasRoom(c) == Len(send[c]) < SendCap

\* When can the hub go through the clients?  The select with its default
\* case never waits.
SendBlocks == \A c \in hubClients : HasRoom(c)
SendReady == TRUE

\* Hub.Run, case broadcast: every client in the map gets the message in
\* its channel, or, when the channel is full, is closed and deleted; the
\* caller of Broadcast goes on.
HubBroadcast(m) ==
    /\ m \in bcastPending
    /\ SendReady
    /\ send' = [c \in Clients |->
                  IF c \in hubClients /\ HasRoom(c)
                  THEN Append(send[c], m) ELSE send[c]]
    /\ closed' = [c \in Clients |->
                    IF c \in hubClients /\ ~HasRoom(c)
                    THEN closed[c] + 1 ELSE closed[c]]
    /\ hubClients' = {c \in hubClients : HasRoom(c)}
    /\ bcastPending' = bcastPending \ {m}
    /\ bcastDone' = bcastDone \cup {m}
    /\ UNCHANGED <<engineVars, cliErr, listVars, clientPc>>

NextHub ==
    \/ \E c \in Clients : ServeWs(c)
    \/ \E c \in Clients : HubRegister(c)
    \/ \E c \in Clients : WritePump(c)
    \/ \E c \in Clients : ReadPumpFails(c)
    \/ \E c \in Clients : HubUnregister(c)
    \/ \E m \in Msgs : HubBroadcastCall(m)
    \/ \E m \in Msgs : HubBroadcast(m)

\* NewHub, and go hub.Run().
InitHub ==
    /\ EngineInit({FullConfig}, {<<>>}, {Names})
    /\ CliIdle /\ ListIdle /\ HubIdle

SpecHub == InitHub /\ [][NextHub]_vars

\* The goroutine of Hub.Run is scheduled again and again, and takes what
\* waits on its three channels: no peer of a channel waits for ever.
HubFairness ==
    /\ \A c \in Clients : WF_vars(HubRegister(c))
    /\ \A c \in Clients : WF_vars(HubUnregister(c))
    /\ \A m \in Msgs : WF_vars(HubBroadcast(m))

SpecHubLive == SpecHub /\ HubFairness

\* ------------------------------------------- diffFiles checked on its own

\* Folders a destination path can lie in.
DiffDirs == {BasePath, <<"other">>}

\* The state in which goroutine 1 is about to call diffFiles on the lists
\* ni and dav, in a run of the given mode.
AtDiffWith(ni, dav, isFull, config) ==
    /\ syncMutex = TRUE
    /\ appConfig = config
    /\ pc = [p \in Procs |-> IF p = 1 THEN "diff" ELSE "idle"]
    /\ isFullSync = [p \in Procs |-> p = 1 /\ isFull]
    /\ mode = [p \in Procs |-> "none"]
    /\ activeConfig = [p \in Procs |-> IF p = 1 THEN config ELSE NoConfig]
    /\ response = [p \in Procs |-> IF p = 1 THEN "200 started" ELSE "none"]
    /\ outcome = [p \in Procs |-> IF p = 1 THEN "running" ELSE "none"]
    /\ webdavCache = Appended(dav)
    /\ nodeImageFiles = [p \in Procs |-> IF p = 1 THEN ni ELSE <<>>]
    /\ webdavFileInfos = [p \in Procs |-> IF p = 1 THEN dav ELSE <<>>]
    /\ listed = [p \in Procs |-> IF p = 1 THEN "fresh" ELSE "no"]
    /\ filesToUpload = [p \in Procs |-> <<>>]
    /\ filesToDelete = [p \in Procs |-> {}]
    /\ upWk = [p \in Procs |-> <<>>]
    /\ delWk = [p \in Procs |-> NoWorkers]
    /\ counts = [p \in Procs |-> NoCounts]
    /\ result = [p \in Procs |-> NoResult]
    /\ niImages = ni
    /\ davFiles = {Base(dav[i].Path) : i \in DOMAIN dav}
    /\ rootExists = TRUE
    /\ runs = MaxRuns
    /\ adapterCalls = [p \in Procs |->
                          IF p = 1 THEN (IF isFull THEN 4 ELSE 3) ELSE 0]
    /\ postInval = [p \in Procs |-> 0]
    /\ prevRun = [p \in Procs |-> NoRun]
    /\ lastRun = NoRun
    /\ broadcasts = PastBroadcasts(MaxRuns - 1)
                       \o <<Message("syncStatus", "syncing", MaxRuns)>>
    /\ CliIdle /\ ListIdle /\ HubIdle

AtDiff(ni, dav, isFull) == AtDiffWith(ni, dav, isFull, FullConfig)

InitDiff ==
    \E ni \in SeqsUpTo({ImageInfo(n) : n \in Names}, MaxDiffLen),
       dav \in SeqsUpTo({FileInfo(d, n) : d \in DiffDirs, n \in Names}, MaxDiffLen),
       isFull \in BOOLEAN :
       AtDiff(ni, dav, isFull)

NextDiff == \E p \in Procs : Diff(p)

SpecDiff == InitDiff /\ [][NextDiff]_vars

\* -------------------------------------- the execute phase checked on its own

\* names[from..to] as a sequence.
NameRun(from, to) == [i \in 1..(to - from + 1) |-> PlanNames[from + i - 1]]

\* Goroutine 1 is about to diff a source of k files against a folder that
\* holds none of them and MaxPlan - k others: a full run plans MaxPlan
\* operations, an incremental run k uploads. SYNC_CONCURRENCY is any of
\* the values above.
InitExec ==
    \E k \in 0..MaxPlan, isFull \in BOOLEAN, n \in SyncConcurrencies :
       AtDiffWith([i \in 1..k |-> ImageInfo(NameRun(1, k)[i])],
                  [i \in 1..(MaxPlan - k) |->
                      FileInfo(BasePath, NameRun(k + 1, MaxPlan)[i])],
                  isFull,
                  [FullConfig EXCEPT !.SyncConcurrency = n])

NextExec ==
    \/ \E p \in Procs : Diff(p)
    \/ \E p \in Procs : \E i \in DOMAIN upWk[p] : UploadAdmit(p, i)
    \/ \E p \in Procs : \E i \in DOMAIN upWk[p] : FetchDone(p, i)
    \/ \E p \in Procs : \E i \in DOMAIN upWk[p] : PutDone(p, i)
    \/ \E p \in Procs : \E f \in DOMAIN delWk[p] : DeleteAdmit(p, f)
    \/ \E p \in Procs : \E f \in DOMAIN delWk[p] : DeleteDone(p, f)
    \/ \E p \in Procs : Wait(p)
    \/ \E p \in Procs : Finish(p)
    \/ \E p \in Procs : RunSyncReturn(p)

SpecExec == InitExec /\ [][NextExec]_vars

\* A full run is about to diff into a plan of MaxPlan operations, one more
\* than the gate holds: deletes only, one upload and deletes, or uploads
\* only.
InitExecLive ==
    \E k \in {0, 1, MaxPlan} :
       AtDiff([i \in 1..k |-> ImageInfo(NameRun(1, k)[i])],
              [i \in 1..(MaxPlan - k) |->
                  FileInfo(BasePath, NameRun(k + 1, MaxPlan)[i])],
              TRUE)

\* The scheduler keeps running every goroutine that can run, and every
\* adapter call returns.
SpecExecLive ==
    InitExecLive /\ [][NextExec]_vars /\ \A p \in Procs : WF_vars(RunStep(p))

\* ------------------------------ diff and execute phase on any source listing

\* Goroutine 1 is about to diff a source listing, which may repeat a name,
\* against the listing of a folder that holds any of the names.
InitRun ==
    \E ni \in SeqsUpTo({ImageInfo(n) : n \in Names}, MaxDiffLen),
       held \in SUBSET Names, isFull \in BOOLEAN :
       AtDiff(ni,
              [i \in DOMAIN SetToSeq(held) |->
                  FileInfo(BasePath, SetToSeq(held)[i])],
              isFull)

SpecRun == InitRun /\ [][NextExec]_vars

\* -------------------------------------------------------------------------
\* Properties
\* -------------------------------------------------------------------------

\* The goroutine is between its successful TryLock and its Unlock.
HoldsLock(p) ==
    pc[p] \in {"locked", "validate", "connect", "mkcol", "testConnection",
               "listSource",
               "invalidate", "readCache", "listDest", "diff", "wait", "finish",
               "return"}

\* The goroutine is inside RunSync.
InRunSync(p) == HoldsLock(p) /\ pc[p] \notin {"locked", "return"}

\* The trigger came in through /api/sync (the timer gets no answer).
Manual(p) == response[p] # "none"

SourceNames(p) == {nodeImageFiles[p][i].Filename : i \in DOMAIN nodeImageFiles[p]}
ListedPaths(p) == {webdavFileInfos[p][i].Path : i \in DOMAIN webdavFileInfos[p]}
ListedNames(p) == {Base(f) : f \in ListedPaths(p)}
UploadNames(p) == {filesToUpload[p][i].Filename : i \in DOMAIN filesToUpload[p]}

\* Paths DeleteFile has been called with in the run.
DeleteCalls(p) == {f \in DOMAIN delWk[p] : delWk[p][f] # "wait"}

\* C1: single-flight. Whatever the interleaving of manual and timer
\* triggers, at most one goroutine is between TryLock and Unlock, a goroutine
\* is inside RunSync only while the Run Lock is held, and so at most one
\* RunSync is in progress at any instant.
C1_SingleFlight ==
    /\ Cardinality({p \in Procs : HoldsLock(p)}) <= 1
    /\ \A p \in Procs : HoldsLock(p) => syncMutex

\* C1 witness: a trigger waits at TryLock while another goroutine has the
\* destination listing in progress.
C1_Witness ==
    \E p, q \in Procs : pc[p] = "listDest" /\ pc[q] = "runSync"

\* C2: a trigger whose TryLock finds the Run Lock held ends in that same
\* step (it does not wait for the lock), as skipped; in that step and ever
\* after it makes no adapter call, starts no goroutine, never enters RunSync
\* (it is neither queued nor retried) and leaves the cache and the WebDAV
\* folder as they are.
C2_RejectedDoesNothing ==
    [][\A p \in Procs :
          /\ (pc[p] = "runSync" /\ syncMutex /\ pc'[p] # "runSync")
             => /\ pc'[p] = "exit"
                /\ outcome'[p] = "skipped"
                /\ webdavCache' = webdavCache
                /\ davFiles' = davFiles
                /\ adapterCalls'[p] = 0
                /\ upWk'[p] = <<>> /\ delWk'[p] = NoWorkers
          /\ outcome[p] = "skipped"
             => /\ pc[p] = "exit"
                /\ pc'[p] \in {"exit", "idle"}
                /\ adapterCalls'[p] = 0
                /\ upWk'[p] = <<>> /\ delWk'[p] = NoWorkers
      ]_vars

\* C2 witness: a trigger has been skipped while another goroutine is inside
\* RunSync with a snapshot in the cache.
C2_Witness ==
    \E p, q \in Procs :
       outcome[p] = "skipped" /\ InRunSync(q) /\ ~webdavCache.isNil

C4_DeleteSafety ==
    \A p \in Procs : \A f \in DeleteCalls(p) :
       /\ f \in ListedPaths(p)
       /\ Base(f) \notin SourceNames(p)

\* C4 witness: a run has deleted a file while its source listing was not
\* empty.
C4_Witness ==
    \E p \in Procs : \E f \in DOMAIN delWk[p] :
       delWk[p][f] = "ok" /\ SourceNames(p) # {}

\* C5: diff completeness, read on names: every source name that is not a
\* destination name is in toUpload, every destination name that is not a
\* source name is in toDelete, and a name on both sides is in neither list.
C5_DiffComplete ==
    \A p \in Procs :
       (isFullSync[p] /\ (pc[p] = "wait" \/ (pc[p] = "return" /\ ReachedDiff(result[p]))))
       => /\ SourceNames(p) \ ListedNames(p) \subseteq UploadNames(p)
          /\ ListedNames(p) \ SourceNames(p) \subseteq {Base(f) : f \in filesToDelete[p]}
          /\ (SourceNames(p) \cap ListedNames(p))
             \cap (UploadNames(p) \cup {Base(f) : f \in filesToDelete[p]}) = {}

\* C6: an incremental run never deletes. It acts on an empty delete list
\* whatever diffFiles computed, starts no delete goroutine, reports
\* Deleted = 0, and is a no-op exactly when toUpload is empty.
C6_IncrementalNeverDeletes ==
    \A p \in Procs :
       (HoldsLock(p) /\ ~isFullSync[p])
       => /\ filesToDelete[p] = {}
          /\ delWk[p] = NoWorkers
          /\ result[p].Deleted = 0
          /\ (pc[p] = "return" /\ ReachedDiff(result[p]))
             => (result[p].Message = "upToDate" <=> Len(filesToUpload[p]) = 0)

\* C6 witness: an incremental run has returned from the diff although the
\* destination listing holds a name the source does not.
C6_Witness ==
    \E p \in Procs :
       /\ pc[p] = "return" /\ ~isFullSync[p] /\ ReachedDiff(result[p])
       /\ ListedNames(p) \ SourceNames(p) # {}

\* C7: a full run reads the cache only when it is empty, and the listing it
\* works on is one it fetched itself, never a snapshot of an earlier run.
C7_FullRunListsAfresh ==
    \A p \in Procs :
       (HoldsLock(p) /\ isFullSync[p])
       => /\ pc[p] = "readCache" => webdavCache.isNil
          /\ listed[p] # "no" => listed[p] = "fresh"

\* C7 witness: a full run has listed the destination although the run
\* before it changed nothing and left a snapshot.
C7_Witness ==
    \E p \in Procs :
       /\ isFullSync[p] /\ listed[p] = "fresh"
       /\ prevRun[p].ran /\ prevRun[p].okOps = 0 /\ prevRun[p].listLen > 0

\* C8 as claimed: the run after a run without a successful upload or delete
\* takes the destination listing from the cache, and the run after a run
\* with at least one lists the destination again.
C8_CacheAcrossRuns ==
    \A p \in Procs :
       (prevRun[p].ran /\ listed[p] # "no")
       => /\ prevRun[p].okOps = 0 => listed[p] = "cache"
          /\ prevRun[p].okOps >= 1 => listed[p] = "fresh"

\* C8 as the code has it: the cache hit needs the earlier run to have got
\* as far as a destination listing that was not empty, and the later run to
\* be incremental; a full run always lists again; after a run with at least
\* one successful upload or delete every run lists again.
C8_CacheAcrossRunsAmended ==
    \A p \in Procs :
       (prevRun[p].ran /\ listed[p] # "no")
       => /\ (prevRun[p].okOps = 0 /\ prevRun[p].listLen > 0 /\ ~isFullSync[p])
             => listed[p] = "cache"
          /\ isFullSync[p] => listed[p] = "fresh"
          /\ prevRun[p].okOps >= 1 => listed[p] = "fresh"

\* C8 witness: an incremental run took its listing from the cache after a
\* run that changed nothing.
C8_Witness ==
    \E p \in Procs :
       /\ ~isFullSync[p] /\ listed[p] = "cache"
       /\ prevRun[p].ran /\ prevRun[p].okOps = 0 /\ prevRun[p].listLen > 0

\* C9: in a run the cache is invalidated after the execute phase at most
\* once, in a step taken when every upload and delete goroutine of the run
\* has finished; no step of a goroutine touches the cache.
C9_InvalidateAfterJoin ==
    [][\A p \in Procs :
          /\ postInval'[p] <= 1
          /\ postInval'[p] > postInval[p]
             => /\ \A i \in DOMAIN upWk[p] : Finished(upWk[p][i])
                /\ \A f \in DOMAIN delWk[p] : Finished(delWk[p][f])
          /\ (upWk'[p] # upWk[p] \/ delWk'[p] # delWk[p])
             => webdavCache' = webdavCache
      ]_vars

\* C9 witness: a run of at least two goroutines has invalidated the cache
\* after its execute phase.
C9_Witness ==
    \E p \in Procs :
       postInval[p] = 1 /\ Len(upWk[p]) + Cardinality(DOMAIN delWk[p]) >= 2

\* C10: the goroutines holding a slot of the gate, uploads and deletes
\* together, never number more than the gate's size.
C10_ConcurrencyCap == \A p \in Procs : InFlight(p) <= GuardSize

\* C10 witness: the gate is full, of uploads and deletes, and a goroutine
\* waits for a slot.
C10_Witness ==
    \E p \in Procs :
       /\ InFlight(p) = GuardSize
       /\ \E i \in DOMAIN upWk[p] : upWk[p][i] \in {"fetch", "put"}
       /\ \E f \in DOMAIN delWk[p] : delWk[p][f] = "del"
       /\ \/ \E i \in DOMAIN upWk[p] : upWk[p][i] = "wait"
          \/ \E f \in DOMAIN delWk[p] : delWk[p][f] = "wait"

\* C11: the gate of a run is as large as SYNC_CONCURRENCY says: with the
\* configured value N no more than N goroutines of the run hold a slot.
C11_ConfiguredConcurrency ==
    \A p \in Procs :
       pc[p] = "wait" => InFlight(p) <= activeConfig[p].SyncConcurrency

\* The run has built the Result of an executed plan.
Summed(p) == pc[p] = "return" /\ result[p].Message = "summary"

\* C12: partial-failure isolation. When the fetch or the put of an upload
\* fails, the join still waits for every other goroutine of the plan, each
\* of which has made its attempt, and the Result has Success = false with at
\* least one upload failure counted.
C12_PartialFailureIsolation ==
    \A p \in Procs :
       /\ pc[p] = "finish" \/ Summed(p)
          => /\ \A i \in DOMAIN upWk[p] : Finished(upWk[p][i])
             /\ \A f \in DOMAIN delWk[p] : Finished(delWk[p][f])
       /\ pc[p] = "finish" /\ NumUp(p, "fail") > 0
          => counts[p].uploadErrCount >= 1
       /\ Summed(p) /\ NumUp(p, "fail") > 0
          => ~result[p].Success /\ result[p].Error

\* C12 witness: a plan of more uploads than the gate has slots has ended
\* with one upload failed and all the others done.
C12_Witness ==
    \E p \in Procs :
       /\ Summed(p) /\ Len(upWk[p]) > GuardSize
       /\ NumUp(p, "fail") = 1 /\ NumUp(p, "ok") = Len(upWk[p]) - 1

\* C13: counter accuracy. After the join Uploaded is the number of uploads
\* that succeeded, Deleted the number of deletes that succeeded, and the
\* failure counts are the numbers that failed, so that the counts of each
\* kind add up to the length of its list.
C13_CounterAccuracy ==
    \A p \in Procs :
       Summed(p)
       => /\ result[p].Uploaded = NumUp(p, "ok")
          /\ result[p].Deleted = NumDel(p, "ok")
          /\ counts[p].uploadErrCount = NumUp(p, "fail")
          /\ counts[p].deleteErrCount = NumDel(p, "fail")
          /\ result[p].Uploaded + counts[p].uploadErrCount = Len(filesToUpload[p])
          /\ result[p].Deleted + counts[p].deleteErrCount
                = Cardinality(filesToDelete[p])

UpToDate(p) == pc[p] = "return" /\ result[p].Message = "upToDate"

\* C15: no-op short-circuit. A run gets to its goroutines only with a plan
\* that is not empty; with an empty plan (no upload, and no delete acted
\* on) it returns the fixed "up to date" Result with Success = true and
\* Uploaded, Deleted and UploadSize 0, having started no goroutine, made no
\* fetch, put or delete and left in the cache the listing it worked on.
C15_NoOpShortCircuit ==
    \A p \in Procs :
       /\ (pc[p] \in {"wait", "finish"} \/ Summed(p))
          => Len(filesToUpload[p]) + Cardinality(filesToDelete[p]) > 0
       /\ UpToDate(p)
          => /\ Len(filesToUpload[p]) = 0 /\ filesToDelete[p] = {}
             /\ upWk[p] = <<>> /\ delWk[p] = NoWorkers
             /\ postInval[p] = 0
             /\ webdavCache = Appended(webdavFileInfos[p])
             /\ result[p].Success /\ ~result[p].Error
             /\ result[p].Uploaded = 0 /\ result[p].Deleted = 0
             /\ result[p].UploadSize = 0

\* C15 witness: a full run over a source and a destination that hold the
\* same file has returned "up to date".
C15_Witness ==
    \E p \in Procs :
       /\ UpToDate(p) /\ isFullSync[p]
       /\ Len(nodeImageFiles[p]) > 0 /\ Len(webdavFileInfos[p]) > 0

\* What the selected mode requires is not all set.
RequiredUnset(p) ==
    \/ isFullSync[p] /\ activeConfig[p].NodeImageCookie = ""
    \/ ~isFullSync[p] /\ activeConfig[p].NodeImageAPIKey = ""
    \/ activeConfig[p].WebdavUsername = ""
    \/ activeConfig[p].WebdavPassword = ""
    \/ activeConfig[p].WebdavBasePath = <<>>

\* C16: a configuration error is fatal and free of side effects. If the
\* credential of the selected mode (cookie for full, API key for
\* incremental) or the WebDAV user name, password or base path is empty,
\* the configuration check ends the run with Success = false, Error set and
\* zero counts, before any adapter call and without a write to the cache or
\* the destination; the credential of the other mode does not help.
C16_ConfigErrorFatal ==
    [][\A p \in Procs :
          /\ (pc[p] = "validate" /\ pc'[p] # "validate" /\ RequiredUnset(p))
             => /\ pc'[p] = "return"
                /\ result'[p] = FailResult("config")
                /\ webdavCache' = webdavCache
                /\ davFiles' = davFiles
          /\ (pc'[p] \in {"connect", "mkcol", "testConnection", "listSource",
                          "invalidate",
                          "readCache", "listDest", "diff", "wait", "finish"})
             => ~RequiredUnset(p)'
          /\ (pc'[p] = "return" /\ RequiredUnset(p)')
             => /\ result'[p] = FailResult("config")
                /\ adapterCalls'[p] = 0
                /\ listed'[p] = "no"
                /\ upWk'[p] = <<>> /\ delWk'[p] = NoWorkers
                /\ postInval'[p] = 0
      ]_vars

\* C16 witness: a full run has failed the configuration check for want of
\* the cookie although the API key is set, with a snapshot in the cache.
C16_Witness ==
    \E p \in Procs :
       /\ pc[p] = "return" /\ result[p] = FailResult("config")
       /\ isFullSync[p]
       /\ activeConfig[p].NodeImageCookie = ""
       /\ activeConfig[p].NodeImageAPIKey # ""
       /\ ~webdavCache.isNil

\* The adapter call a coordinator phase makes, by the message of its failure.
ConnectivityFailures ==
    [connect |-> "connectWebDAV", mkcol |-> "connectWebDAV",
     testConnection |-> "connectNodeImage",
     listSource |-> "listNodeImage", listDest |-> "listWebDAV"]

\* C17: a connectivity error is fatal. When Connect, the source connection
\* test, the source listing or the destination listing fails, the run
\* returns at once a Result with Success = false, Error set and every count
\* and total 0, and has started no goroutine: no fetch, put or delete.
C17_ConnectivityErrorFatal ==
    [][\A p \in Procs :
          /\ (pc[p] \in DOMAIN ConnectivityFailures /\ pc'[p] = "return")
             => /\ result'[p] = FailResult(ConnectivityFailures[pc[p]])
                /\ upWk'[p] = <<>> /\ delWk'[p] = NoWorkers
                /\ davFiles' = davFiles
          /\ (pc'[p] = "return" /\ result'[p].Error /\ ~Summed(p)')
             => /\ ~result'[p].Success
                /\ result'[p].Uploaded = 0 /\ result'[p].Deleted = 0
                /\ result'[p].UploadSize = 0
                /\ result'[p].TotalNodeImageFiles = 0
                /\ result'[p].TotalNodeImageSize = 0
                /\ result'[p].TotalWebDAVFiles = 0
                /\ result'[p].TotalWebDAVSize = 0
                /\ upWk'[p] = <<>> /\ delWk'[p] = NoWorkers
      ]_vars

\* C17 witness: the destination listing has failed in a run whose source
\* listing was not empty.
C17_Witness ==
    \E p \in Procs :
       /\ pc[p] = "return" /\ result[p] = FailResult("listWebDAV")
       /\ Len(nodeImageFiles[p]) > 0

\* C18: every accepted run ends. Under SpecLive, whenever a goroutine is
\* between TryLock and Unlock a state follows in which none is: the run
\* (there is one at a time) has ended, whichever way RunSync returned. A
\* run ends only from RunSync's return, with the one Result RunSync
\* produced, and unlocks as it ends; the lock is held only while a run is
\* on, so that a trigger arriving after the end is accepted.
C18_RunsTerminate ==
    /\ (\E p \in Procs : HoldsLock(p)) ~> (\A p \in Procs : ~HoldsLock(p))
    /\ [][\A p \in Procs :
            /\ (HoldsLock(p) /\ ~HoldsLock(p)')
               => /\ pc[p] = "return" /\ result[p] # NoResult
                  /\ ~syncMutex'
            /\ result[p] # NoResult
               => pc[p] = "return" /\ result'[p] \in {result[p], NoResult}
            /\ (syncMutex' => \E q \in Procs : HoldsLock(q)')
       ]_vars

\* C18 witness: a run that executed a plan and failed in part is about to
\* give the lock back while a second trigger is at TryLock.
C18_Witness ==
    \E p, q \in Procs :
       /\ Summed(p) /\ ~result[p].Success /\ syncMutex
       /\ pc[q] = "runSync"

C20_PutOnlyAbsent ==
    \A p \in Procs : \A i \in DOMAIN upWk[p] :
       upWk[p][i] \in {"put", "ok"}
       => filesToUpload[p][i].Filename \notin ListedNames(p)

\* C22: the operations a run has planned have pairwise distinct target
\* names: no two uploads write the same name and no upload and delete touch
\* the same name.
C22_DistinctTargets ==
    \A p \in Procs :
       pc[p] \in {"wait", "finish"}
       => /\ \A i, j \in DOMAIN filesToUpload[p] :
                i # j => filesToUpload[p][i].Filename # filesToUpload[p][j].Filename
          /\ \A f, g \in filesToDelete[p] : f # g => Base(f) # Base(g)
          /\ UploadNames(p) \cap {Base(f) : f \in filesToDelete[p]} = {}

\* The steps one upload goroutine and one delete goroutine can take.
UploadSteps ==
    {<<"wait", "fetch">>, <<"fetch", "put">>, <<"fetch", "fail">>,
     <<"put", "ok">>, <<"put", "fail">>}
DeleteSteps == {<<"wait", "del">>, <<"del", "ok">>, <<"del", "fail">>}

\* C23: every planned item is attempted exactly once. A run has one
\* goroutine per entry of filesToUpload and per entry of the delete list it
\* acts on; each issues its DownloadImage once, its UploadFile at most once
\* and only after the download succeeded, its DeleteFile once; an operation
\* that has failed or succeeded is final (no retry); and at the join no
\* goroutine is left that has not made its attempt.
C23_ExactlyOnce ==
    [][\A p \in Procs :
          /\ pc[p] \in {"wait", "finish"}
             => /\ DOMAIN upWk[p] = DOMAIN filesToUpload[p]
                /\ DOMAIN delWk[p] = filesToDelete[p]
          /\ (pc[p] = "wait" /\ pc'[p] \in {"wait", "finish"})
             => /\ \A i \in DOMAIN upWk[p] :
                      \/ upWk'[p][i] = upWk[p][i]
                      \/ <<upWk[p][i], upWk'[p][i]>> \in UploadSteps
                /\ \A f \in DOMAIN delWk[p] :
                      \/ delWk'[p][f] = delWk[p][f]
                      \/ <<delWk[p][f], delWk'[p][f]>> \in DeleteSteps
          /\ pc'[p] = "finish"
             => /\ \A i \in DOMAIN upWk'[p] : Finished(upWk'[p][i])
                /\ \A f \in DOMAIN delWk'[p] : Finished(delWk'[p][f])
                /\ upWk'[p] = upWk[p] /\ delWk'[p] = delWk[p]
      ]_vars

\* C23 witness: a run is past its join with a failed upload, a successful
\* upload and a successful delete.
C23_Witness ==
    \E p \in Procs :
       /\ pc[p] = "finish"
       /\ NumUp(p, "fail") > 0 /\ NumUp(p, "ok") > 0 /\ NumDel(p, "ok") > 0

\* C24: the executor terminates. Under SpecExecLive a run that waits at its
\* join, with a plan larger than the gate and whatever succeeds or fails,
\* gets past it: every goroutine gets a slot, finishes and gives the slot
\* back, wg.Wait() returns and RunSync returns its Result.
C24_ExecutorTerminates ==
    /\ (\E p \in Procs : pc[p] = "wait")
          ~> (\E p \in Procs : Summed(p) /\ InFlight(p) = 0 /\ WaitReturns(p))
    /\ [][\A p \in Procs :
            (pc[p] = "wait" /\ pc'[p] # "wait")
            => pc'[p] = "finish" /\ InFlight(p) = 0 /\ WaitReturns(p)
       ]_vars

\* C24 witness: in a plan larger than the gate, the gate is full and a
\* delete goroutine waits for a slot behind an upload.
C24_Witness ==
    \E p \in Procs :
       /\ pc[p] = "wait" /\ InFlight(p) = GuardSize
       /\ Len(upWk[p]) + Cardinality(DOMAIN delWk[p]) > GuardSize
       /\ \E f \in DOMAIN delWk[p] : delWk[p][f] = "wait"
       /\ \E i \in DOMAIN upWk[p] : upWk[p][i] = "put"

\* Adapter calls of the coordinator that a run at its diff has behind it:
\* Connect, the source listing, the connection test of a full run, the
\* destination listing unless the cache served it.
CallsBeforeDiff(p) ==
    2 + (IF isFullSync[p] THEN 1 ELSE 0) + (IF listed[p] = "fresh" THEN 1 ELSE 0)

\* C25: phase ordering. A run is at its diff, or has a goroutine (so a
\* fetch, put or delete), only after the configuration check has passed and
\* Connect, the source listing and the destination listing or cache read
\* have returned without error; its plan is the diff of those two listings.
C25_PhaseOrdering ==
    \A p \in Procs :
       (pc[p] = "diff" \/ upWk[p] # <<>> \/ delWk[p] # NoWorkers)
       => /\ ~RequiredUnset(p)
          /\ listed[p] \in {"cache", "fresh"}
          /\ adapterCalls[p] = CallsBeforeDiff(p)
          /\ nodeImageFiles[p] = niImages
          /\ pc[p] # "diff"
             => LET webdavFiles == [i \in DOMAIN webdavFileInfos[p] |->
                                       webdavFileInfos[p][i].Path]
                    d == diffFiles(nodeImageFiles[p], webdavFiles)
                IN /\ filesToUpload[p] = d.toUpload
                   /\ filesToDelete[p] \subseteq d.toDelete
                   /\ DOMAIN upWk[p] = DOMAIN d.toUpload

\* C25 witness: a download is in progress in a run that took its
\* destination listing from the cache.
C25_Witness ==
    \E p \in Procs :
       /\ listed[p] = "cache"
       /\ \E i \in DOMAIN upWk[p] : upWk[p][i] = "fetch"

\* C26: convergence. A full run that comes right after a full run that
\* returned Success = true, the source being the same and the destination
\* changed by that run only, has an empty plan: it starts no goroutine and
\* returns the "up to date" Result.
C26_Convergence ==
    \A p \in Procs :
       (prevRun[p].fullOk /\ isFullSync[p])
       => /\ pc[p] \notin {"wait", "finish"}
          /\ upWk[p] = <<>> /\ delWk[p] = NoWorkers
          /\ (pc[p] = "return" /\ ReachedDiff(result[p])) => UpToDate(p)

\* Positions of the destination listing that carry the base name n.
ListedAt(p, n) ==
    {i \in DOMAIN webdavFileInfos[p] : Base(webdavFileInfos[p][i].Path) = n}

\* The greatest member of a non-empty set of positions.
Last(S) == CHOOSE i \in S : \A j \in S : j <= i

\* The full run has been through diffFiles.
Diffed(p) ==
    isFullSync[p] /\ (pc[p] = "wait" \/ (pc[p] = "return" /\ ReachedDiff(result[p])))

\* C28: destination entries with the same base name resolve
\* last-write-wins. Of the entries listed under one base name, toDelete
\* holds the last in listing order and no other if the name is not in the
\* source, and none of them if it is.
C28_LastWriteWins ==
    \A p \in Procs :
       Diffed(p)
       => \A n \in ListedNames(p) :
             LET under == {webdavFileInfos[p][i].Path : i \in ListedAt(p, n)}
                 last == webdavFileInfos[p][Last(ListedAt(p, n))].Path
             IN IF n \in SourceNames(p)
                THEN filesToDelete[p] \cap under = {}
                ELSE filesToDelete[p] \cap under = {last}

\* C28 witness: the listing has two paths under one base name that the
\* source lacks, and the plan deletes the later one.
C28_Witness ==
    \E p \in Procs :
       /\ Diffed(p)
       /\ \E i, j \in DOMAIN webdavFileInfos[p] :
             /\ i < j
             /\ webdavFileInfos[p][i].Path # webdavFileInfos[p][j].Path
             /\ Base(webdavFileInfos[p][i].Path) = Base(webdavFileInfos[p][j].Path)
             /\ webdavFileInfos[p][j].Path \in filesToDelete[p]
             /\ webdavFileInfos[p][i].Path \notin filesToDelete[p]

\* Base names of the paths in the cached WebDAV listing.
CachedNames == {Base(webdavCache.elems[i].Path) : i \in DOMAIN webdavCache.elems}

PastConnect(p) == InRunSync(p) /\ pc[p] \notin {"validate", "connect", "mkcol"}

\* C30: Connect is an idempotent verify-or-create. On a base collection that
\* exists it issues no MKCOL and creates nothing; on one that is absent it
\* does not succeed without a MKCOL, issues that MKCOL once, and succeeds
\* exactly when the MKCOL created the collection (201); a failed Connect
\* ends the run; after a successful Connect the collection exists, it stays,
\* and so a later Connect creates nothing.
C30_ConnectVerifyOrCreate ==
    [][\A p \in Procs :
          /\ (pc[p] = "connect" /\ pc'[p] # "connect" /\ rootExists)
             => /\ pc'[p] # "mkcol"
                /\ PastConnect(p)' \/ pc'[p] = "return"
          /\ (pc[p] = "connect" /\ pc'[p] # "connect" /\ ~rootExists)
             => /\ pc'[p] \in {"mkcol", "return"}
                /\ ~rootExists'
          /\ (pc[p] = "mkcol" /\ pc'[p] # "mkcol")
             => /\ PastConnect(p)' \/ pc'[p] = "return"
                /\ PastConnect(p)' <=> rootExists'
                /\ adapterCalls'[p] = adapterCalls[p]
          /\ PastConnect(p)' => rootExists'
          /\ rootExists => rootExists'
      ]_vars

\* C30 witness: the first run created the absent base collection and listed
\* the empty folder; the Connect of the second run has succeeded on it.
C30_Witness ==
    \E p \in Procs :
       /\ pc[p] \in {"testConnection", "listSource"}
       /\ prevRun[p].ran /\ prevRun[p].listLen = 0
       /\ davFiles = {} /\ rootExists

\* C32: the cache is valid exactly when the snapshot is not nil, and a
\* listing of no file is stored as nil. A stored snapshot is never empty; a
\* run goes on to list the destination only with a nil cache and takes the
\* snapshot only when it is not nil; so the run after a run that listed an
\* empty destination lists the destination again, whatever its mode.
C32_EmptyListingNotCached ==
    /\ ~webdavCache.isNil => Len(webdavCache.elems) > 0
    /\ \A p \in Procs :
          /\ pc[p] = "listDest" => webdavCache.isNil
          /\ (pc[p] = "diff" /\ listed[p] = "cache")
             => /\ ~webdavCache.isNil
                /\ webdavFileInfos[p] = webdavCache.elems
          /\ (pc[p] = "diff" /\ listed[p] = "fresh" /\ webdavFileInfos[p] = <<>>)
             => webdavCache.isNil
          /\ (prevRun[p].ran /\ prevRun[p].listLen = 0 /\ listed[p] # "no")
             => listed[p] = "fresh"

\* C32 witness: an incremental run has listed the destination itself after
\* a run that listed an empty destination and changed nothing.
C32_Witness ==
    \E p \in Procs :
       /\ ~isFullSync[p] /\ listed[p] = "fresh"
       /\ prevRun[p].ran /\ prevRun[p].listLen = 0 /\ prevRun[p].okOps = 0

\* The listed sizes of the planned uploads that succeeded.
SucceededSize(p) ==
    SumSizes(SelectSeq(filesToUpload[p],
                       LAMBDA f : \E i \in DOMAIN upWk[p] :
                                     /\ filesToUpload[p][i] = f
                                     /\ upWk[p][i] = "ok"))

\* C33: in the Result of a run that executed a plan, UploadSize is the sum
\* of the listed sizes of all the planned uploads, whether they succeeded
\* or failed.
C33_UploadSizeAsPlanned ==
    \A p \in Procs :
       Summed(p) => result[p].UploadSize = SumSizes(filesToUpload[p])

\* C33 witness: a plan of uploads has ended with one upload failed and one
\* done, and UploadSize is more than the uploads done add up to.
C33_Witness ==
    \E p \in Procs :
       /\ Summed(p)
       /\ NumUp(p, "fail") >= 1 /\ NumUp(p, "ok") >= 1
       /\ result[p].UploadSize > SucceededSize(p)

\* The messages a state of the runs accounts for: three for every run that
\* is over, and "syncing" for the run that is past its first broadcast.
BroadcastsDue ==
    IF \E p \in Procs : HoldsLock(p) /\ pc[p] # "locked"
    THEN 3 * (runs - 1) + 1
    ELSE IF \E p \in Procs : pc[p] = "locked"
    THEN 3 * (runs - 1)
    ELSE 3 * runs

\* C34: the status broadcast protocol. The syncStatus and syncResult
\* messages broadcast so far are exactly those of the accepted runs in the
\* order of the runs, each run's being syncStatus "syncing", one syncResult
\* and syncStatus "idle" in this order, sent while the run holds the lock:
\* the statuses alternate, the messages of two runs do not interleave, and
\* a rejected trigger adds none.
C34_BroadcastProtocol ==
    /\ Len(broadcasts) = BroadcastsDue
    /\ broadcasts = SubSeq(PastBroadcasts(runs), 1, Len(broadcasts))

\* C34 witness: a trigger has been rejected while the run that holds the
\* lock has returned from RunSync and has yet to broadcast its result: the
\* last message out is the "syncing" of that run.
C34_Witness ==
    /\ \E p \in Procs : pc[p] = "exit" /\ outcome[p] = "skipped"
    /\ \E q \in Procs : pc[q] = "return"
    /\ Len(broadcasts) > 0
    /\ broadcasts[Len(broadcasts)] = Message("syncStatus", "syncing", runs)

\* C35: configuration snapshot isolation. A run takes its configuration as
\* appConfig is when it starts, updates before that included; the copy does
\* not change while the run is on, whatever POST /api/config does meanwhile;
\* and the configuration check of the run decides on the copy.
C35_ConfigSnapshot ==
    [][\A p \in Procs :
          /\ (pc[p] = "locked" /\ pc'[p] = "validate")
             => activeConfig'[p] = appConfig
          /\ (InRunSync(p) /\ InRunSync(p)')
             => activeConfig'[p] = activeConfig[p]
          /\ (pc[p] = "validate" /\ pc'[p] # "validate")
             => (pc'[p] = "return" <=> RequiredUnset(p))
      ]_vars

\* C35 witness: the cookie was taken away while a full run was executing
\* its plan with the cookie it had started with.
C35_Witness ==
    \E p \in Procs :
       /\ isFullSync[p] /\ pc[p] = "wait"
       /\ activeConfig[p].NodeImageCookie = "c1"
       /\ appConfig.NodeImageCookie = ""

\* C36: destructive mode is opt-in. A trigger makes a full run only if it
\* is a POST with mode exactly "full" (a timer's run and any other or
\* missing mode are incremental), the mode of a run does not change while it
\* is on, and a run has a delete plan or invokes a delete only if it is a
\* full run started through the handler.
C36_DestructiveOptIn ==
    [][\A p \in Procs :
          /\ pc'[p] = "runSync" => (isFullSync'[p] <=> mode'[p] = "full")
          /\ (pc[p] # "idle" /\ pc'[p] # "idle")
             => isFullSync'[p] = isFullSync[p]
          /\ (filesToDelete'[p] # {} \/ DeleteCalls(p)' # {})
             => isFullSync'[p] /\ Manual(p)'
      ]_vars

\* C36 witness: a run started by a POST with a mode other than "full" has
\* returned from the diff although the destination listing holds a name
\* the source does not.
C36_Witness ==
    \E p \in Procs :
       /\ pc[p] = "return" /\ Manual(p) /\ ~isFullSync[p]
       /\ ReachedDiff(result[p])
       /\ ListedNames(p) \ SourceNames(p) # {}
       /\ filesToDelete[p] = {} /\ DeleteCalls(p) = {}

\* runSyncLogic has returned an error.
CliFailed == cliErr \notin {"none", "exit", "nil"}

\* C37: in the command-line variant runSyncLogic returns nil whenever the
\* two connections and the two listings succeeded, however many uploads
\* and deletes failed; it returns an error only from a connection or a
\* listing, before any goroutine has started.
C37_CliIgnoresItemFailures ==
    /\ (pc[CliProc] = "cliDone" /\ listed[CliProc] = "fresh") => cliErr = "nil"
    /\ cliErr = "nil" => pc[CliProc] = "cliDone" /\ listed[CliProc] = "fresh"
    /\ CliFailed
       => /\ pc[CliProc] = "cliDone" /\ listed[CliProc] = "no"
          /\ upWk[CliProc] = <<>> /\ delWk[CliProc] = NoWorkers

\* C37 witness: runSyncLogic has returned nil from a plan in which an
\* upload and a delete failed.
C37_Witness ==
    /\ cliErr = "nil"
    /\ NumUp(CliProc, "fail") >= 1
    /\ NumDel(CliProc, "fail") >= 1

\* The file entries of a page and of all pages: the responses that are
\* not the folder itself and that carry a content length, in their order.
RECURSIVE FileEntries(_, _)
FileEntries(dir, rs) ==
    IF Len(rs) = 0 THEN <<>>
    ELSE (IF IsNotSelf(dir, rs[1]) /\ rs[1].GetContentLength # ""
          THEN <<ListedInfo(dir, rs[1])>> ELSE <<>>)
         \o FileEntries(dir, Tail(rs))
RECURSIVE AllFileEntries(_, _)
AllFileEntries(dir, pages) ==
    IF Len(pages) = 0 THEN <<>>
    ELSE FileEntries(dir, pages[1].responses)
         \o AllFileEntries(dir, Tail(pages))

\* C31: a listing of k pages chained by Link rel="next" returns exactly
\* the file entries of all k pages, the folder itself and the entries
\* without a content length left out, none dropped and none twice; when
\* a page fails the listing fails and returns no list.
C31_ListingComplete ==
    listResult # NoListing
    => IF \E i \in DOMAIN davPages : davPages[i].status # 207
       THEN listResult.err # "nil" /\ listResult.infos = NilSlice
       ELSE /\ listResult.err = "nil"
            /\ listResult.infos.elems = AllFileEntries(listDir, davPages)

\* The hub has taken the client from h.register.
WasRegistered(c) == clientPc[c] \in {"open", "unregistering", "gone"}

C39_SlowClientNeverStalls ==
    /\ [](\A m \in bcastPending : ENABLED HubBroadcast(m))
    /\ [][\A m \in bcastPending :
            m \in bcastDone'
            => \A c \in hubClients :
                  IF Len(send[c]) = SendCap
                  THEN /\ c \notin hubClients'
                       /\ closed'[c] = closed[c] + 1
                       /\ send'[c] = send[c]
                  ELSE /\ c \in hubClients'
                       /\ closed'[c] = closed[c]
                       /\ send'[c] = Append(send[c], m)
         ]_vars
    /\ \A m \in Msgs : (m \in bcastPending ~> m \in bcastDone)

\* C39 witness: a broadcast has returned that found one client with a
\* full buffer and dropped it, while the other client holds the message.
C39_Witness ==
    \E c, d \in Clients : \E m \in bcastDone :
       /\ closed[c] = 1 /\ clientPc[c] = "open" /\ c \notin hubClients
       /\ Len(send[c]) = SendCap /\ m \notin Range(send[c])
       /\ d \in hubClients /\ m \in Range(send[d])

====
